---- MODULE Spec2Model ----
(***************************************************************************)
(* Entity store engine of bebabeba (vehicle, staff and user services):     *)
(* status transition tables, cursor pagination, partial updates, soft      *)
(* delete and the create / update-status request handlers over the         *)
(* backing tables.                                                         *)
(*                                                                         *)
(* The module holds several specifications over one set of variables; a    *)
(* specification leaves the variables of the other parts at their idle     *)
(* values.                                                                 *)
(*   SpecFSM   the pure transition checks                                  *)
(*   SpecList  List calls chained through nextToken over a fixed table     *)
(*   SpecSeq   request handlers run one at a time                          *)
(*   SpecConc  request handlers interleaved at their store calls           *)
(***************************************************************************)
EXTENDS Integers, Sequences, FiniteSets, TLC

VARIABLES
    now,          \* wall clock tick, as read by time.Now() and the snowflake generator
    vehicleTypes, \* table vehicle_types: the ids present
    vehicles,     \* table vehicles: a set of rows
    drivers,      \* table drivers: a set of rows
    certs,        \* table driver_certifications: a set of rows
    pc,           \* position of each in-flight request handler
    loc,          \* locals of each in-flight request handler
    last,         \* the most recently completed request and its outcome
    nops,         \* number of requests started so far
    trDriver,     \* a call of IsValidDriverStatusTransition: arguments and result
    trVehicle,    \* a call of IsValidStatusTransition: arguments and result
    listReq,      \* the List request being iterated: page size and current token
    listOut,      \* what the iteration has returned so far
    typeRows,     \* table vehicle_types: id and name of each row
    oauthStates,  \* UserHandler.oauthStates: the keys of the map
    oauthLog      \* history: the states issued, and how often each was accepted

tableVars == <<vehicleTypes, vehicles, drivers, certs>>
lifeVars == <<now, vehicleTypes, vehicles, drivers, certs, pc, loc, last, nops>>
fsmVars  == <<trDriver, trVehicle>>
listVars == <<listReq, listOut>>
bootVars == <<typeRows, oauthStates, oauthLog>>
vars     == <<now, vehicleTypes, vehicles, drivers, certs, pc, loc, last, nops,
              trDriver, trVehicle, listReq, listOut, typeRows, oauthStates,
              oauthLog>>

(***************************************************************************)
(* Status enums and transition tables                                      *)
(***************************************************************************)

\* genproto.DriverStatus, as the drivers.status ENUM column spells it
DriverStatuses ==
    {"STATUS_UNSPECIFIED", "PENDING_VERIFICATION", "ACTIVE", "SUSPENDED", "INACTIVE"}

\* genproto.VehicleStatus, as the vehicles.status ENUM column spells it
VehicleStatuses ==
    {"STATUS_UNSPECIFIED", "ACTIVE", "MAINTENANCE", "RETIRED", "ASSIGNED"}

\* a Go map[K][]V: the keys present and the slice stored under each
MapKeys(m) == DOMAIN m

\* the range loop "for _, allowed := range s { if allowed == to { return true } }"
RECURSIVE SliceContains(_, _)
SliceContains(s, x) ==
    IF s = <<>> THEN FALSE
    ELSE IF Head(s) = x THEN TRUE
    ELSE SliceContains(Tail(s), x)

\* faulty variant: ACTIVE lists itself as a target
ValidDriverStatusTransitions_SelfEdge ==
    [s \in {"PENDING_VERIFICATION", "ACTIVE", "SUSPENDED", "INACTIVE"} |->
        CASE s = "PENDING_VERIFICATION" -> <<"ACTIVE", "INACTIVE">>
          [] s = "ACTIVE"               -> <<"SUSPENDED", "INACTIVE", "ACTIVE">>
          [] s = "SUSPENDED"            -> <<"ACTIVE", "INACTIVE">>
          [] s = "INACTIVE"             -> <<"ACTIVE", "PENDING_VERIFICATION">>]

ValidDriverStatusTransitions ==
    [s \in {"PENDING_VERIFICATION", "ACTIVE", "SUSPENDED", "INACTIVE"} |->
        CASE s = "PENDING_VERIFICATION" -> <<"ACTIVE", "INACTIVE">>
          [] s = "ACTIVE"               -> <<"SUSPENDED", "INACTIVE">>
          [] s = "SUSPENDED"            -> <<"ACTIVE", "INACTIVE">>
          [] s = "INACTIVE"             -> <<"ACTIVE", "PENDING_VERIFICATION">>]

IsValidDriverStatusTransition(from, to) ==
    IF from \notin MapKeys(ValidDriverStatusTransitions) THEN FALSE
    ELSE SliceContains(ValidDriverStatusTransitions[from], to)

\* faulty variant: a retired vehicle may return to service
ValidStatusTransitions_RetiredReturns ==
    [s \in {"ACTIVE", "ASSIGNED", "MAINTENANCE", "RETIRED"} |->
        CASE s = "ACTIVE"      -> <<"ASSIGNED", "MAINTENANCE", "RETIRED">>
          [] s = "ASSIGNED"    -> <<"ACTIVE", "MAINTENANCE">>
          [] s = "MAINTENANCE" -> <<"ACTIVE", "RETIRED">>
          [] s = "RETIRED"     -> <<"ACTIVE">>]

ValidStatusTransitions ==
    [s \in {"ACTIVE", "ASSIGNED", "MAINTENANCE", "RETIRED"} |->
        CASE s = "ACTIVE"      -> <<"ASSIGNED", "MAINTENANCE", "RETIRED">>
          [] s = "ASSIGNED"    -> <<"ACTIVE", "MAINTENANCE">>
          [] s = "MAINTENANCE" -> <<"ACTIVE", "RETIRED">>
          [] s = "RETIRED"     -> <<>>]

IsValidStatusTransition(from, to) ==
    IF from \notin MapKeys(ValidStatusTransitions) THEN FALSE
    ELSE SliceContains(ValidStatusTransitions[from], to)

(***************************************************************************)
(* Idle values of the parts a specification does not run                   *)
(***************************************************************************)

NoCall == [from |-> "STATUS_UNSPECIFIED", to |-> "STATUS_UNSPECIFIED", called |-> FALSE,
           result |-> FALSE]

(***************************************************************************)
(* SpecFSM: the two transition checks on arbitrary status pairs            *)
(***************************************************************************)

CheckDriverTransition ==
    /\ ~trDriver.called
    /\ trDriver' = [trDriver EXCEPT
                      !.called = TRUE,
                      !.result = IsValidDriverStatusTransition(trDriver.from, trDriver.to)]
    /\ UNCHANGED <<trVehicle, lifeVars, listVars, bootVars>>

CheckVehicleTransition ==
    /\ ~trVehicle.called
    /\ trVehicle' = [trVehicle EXCEPT
                       !.called = TRUE,
                       !.result = IsValidStatusTransition(trVehicle.from, trVehicle.to)]
    /\ UNCHANGED <<trDriver, lifeVars, listVars, bootVars>>

(***************************************************************************)
(* Rows, timestamps and page tokens                                        *)
(***************************************************************************)

\* SQL NULL in a nullable column; the empty Go string
NULL == "NULL"
EmptyStr == ""

\* time.Time{}: the zero time, for which IsZero() holds; stored times are later
ZeroTime == 0

\* the text of the i-th UUID
UUIDOf(i) == "uuid-" \o ToString(i)

\* a row of table vehicles with the columns the handlers read or write
\* (model, seating_capacity, fuel_type, chassis_number and insurance_expiry are
\* handled like make, year, color, engine_number and registration_date)
VehicleRow(internalID, externalID, typeID, plate, make, year, color, engine, regDate, status, createdAt, updatedAt) ==
    [internal_id |-> internalID, external_id |-> externalID,
     vehicle_type_id |-> typeID, license_plate |-> plate, make |-> make,
     year |-> year, color |-> color, engine_number |-> engine,
     registration_date |-> regDate, status |-> status,
     created_at |-> createdAt, updated_at |-> updatedAt]

\* faulty variant: the text drops the odd tick of the time, as a format without
\* fractional seconds drops the fraction
MarshalText_Truncated(t) == <<"rfc3339", t - (t % 2)>>

\* Time.MarshalText / Time.Format(time.RFC3339Nano): the RFC3339 text of a time
MarshalText(t) == <<"rfc3339", t>>

\* Time.UnmarshalText: the time a text denotes, or an error for any other text
UnmarshalText(text) ==
    IF Len(text) = 2 /\ text[1] = "rfc3339"
    THEN [err |-> FALSE, time |-> text[2]]
    ELSE [err |-> TRUE, time |-> ZeroTime]

\* base64.URLEncoding.EncodeToString; the empty string is <<>>
Base64Encode(text) == <<"b64", text>>

\* base64.URLEncoding.DecodeString
Base64Decode(tok) ==
    IF Len(tok) = 2 /\ tok[1] = "b64"
    THEN [err |-> FALSE, text |-> tok[2]]
    ELSE [err |-> TRUE, text |-> <<>>]

EmptyToken == <<>>

\* the empty text '' bound to a query placeholder
EmptyText == <<>>

\* nextPageToken = base64(lastCreatedAt.MarshalText())
EncodePageToken(t) == Base64Encode(MarshalText(t))

(***************************************************************************)
(* Cursor pagination: handler, service and store of ListVehicles           *)
(* (ListDrivers, ListUsers, ListVehicleTypes, GetAvailableVehicles and the *)
(* other list queries repeat the same token and limit code)                *)
(***************************************************************************)

DefaultPageSize == 50
MaxPageSize == 100

\* an optional filter that is not set (a nil pointer)
NoFilter == "<nil>"

\* grpcHandler.ListVehicles: page sizes above the maximum are lowered to it
HandlerPageSize(ps) == IF ps > MaxPageSize THEN MaxPageSize ELSE ps

\* service.ListVehicles: "Validate page size"
ServicePageSize(ps) ==
    LET a == IF ps <= 0 THEN DefaultPageSize ELSE ps
    IN  IF a > MaxPageSize THEN MaxPageSize ELSE a

\* store.ListVehicles: first statement
StorePageSize(ps) == IF ps <= 0 \/ ps > MaxPageSize THEN DefaultPageSize ELSE ps

\* the characters of the makes and make filters of the model
Chars(str) ==
    CASE str = "Toyota" -> <<"T", "o", "y", "o", "t", "a">>
      [] str = "Mazda" -> <<"M", "a", "z", "d", "a">>
      [] str = "Honda" -> <<"H", "o", "n", "d", "a">>
      [] str = "oy" -> <<"o", "y">>
      [] str = "az" -> <<"a", "z">>
      [] str = "T_y" -> <<"T", "_", "y">>
      [] str = "%" -> <<"%">>
      [] OTHER -> <<str>>

\* text LIKE pattern: % stands for any run of characters, _ for one character
RECURSIVE LikeMatch(_, _)
LikeMatch(pattern, text) ==
    IF pattern = <<>> THEN text = <<>>
    ELSE IF Head(pattern) = "%"
    THEN LikeMatch(Tail(pattern), text) \/ (text # <<>> /\ LikeMatch(pattern, Tail(text)))
    ELSE /\ text # <<>>
         /\ (Head(pattern) = "_" \/ Head(pattern) = Head(text))
         /\ LikeMatch(Tail(pattern), Tail(text))

\* v.make LIKE ? with makePattern = "%" + filter + "%"
MakeContains(make, f) == LikeMatch(<<"%">> \o Chars(f) \o <<"%">>, Chars(make))

\* the WHERE clause of listVehiclesQuery on one row; cursorStr is '' or the
\* RFC3339 text of the cursor time
ListVehiclesWhere(row, statusStr, vehicleTypeStr, makeFilter, cursorStr) ==
    /\ (statusStr = EmptyStr \/ row.status = statusStr)
    /\ (vehicleTypeStr = EmptyStr \/ row.vehicle_type_id = vehicleTypeStr)
    /\ (makeFilter = EmptyStr \/ MakeContains(row.make, makeFilter))
    /\ (cursorStr = EmptyText \/ row.created_at > cursorStr[2])

\* the orders ORDER BY created_at DESC may give the rows of S (ties in any order)
OrderedByCreatedAtDesc(S) ==
    LET n == Cardinality(S)
    IN  {q \in [1..n -> S] :
            /\ \A i, j \in 1..n : i < j => q[i] # q[j] /\ q[i].created_at >= q[j].created_at}

\* LIMIT n on an ordered result
Limit(q, n) == IF Len(q) > n THEN SubSeq(q, 1, n) ELSE q

\* the results listVehiclesQuery may return
ListVehiclesQuery(tbl, statusStr, vehicleTypeStr, makeFilter, cursorStr, limit) ==
    LET S == {r \in tbl : ListVehiclesWhere(r, statusStr, vehicleTypeStr, makeFilter, cursorStr)}
    IN  {Limit(q, limit) : q \in OrderedByCreatedAtDesc(S)}

\* faulty variant: the row fetched beyond the page size is not cut off
ListVehiclesPage_NoTrim(fetched, pageSize) ==
    LET lastCreatedAt == IF Len(fetched) = 0 THEN ZeroTime
                         ELSE fetched[Len(fetched)].created_at
    IN  [vehicles |-> fetched,
         nextPageToken |-> IF Len(fetched) > pageSize THEN EncodePageToken(lastCreatedAt)
                           ELSE EmptyToken,
         fetched |-> fetched, limit |-> pageSize + 1, err |-> "nil"]

\* store.ListVehicles after the query: the scan loop leaves lastCreatedAt at
\* the created_at of the last row scanned; "Determine next page token"
ListVehiclesPage(fetched, pageSize) ==
    LET lastCreatedAt == IF Len(fetched) = 0 THEN ZeroTime
                         ELSE fetched[Len(fetched)].created_at
    IN  IF Len(fetched) > pageSize
        THEN [vehicles |-> SubSeq(fetched, 1, pageSize),
              nextPageToken |-> EncodePageToken(lastCreatedAt),
              fetched |-> fetched, limit |-> pageSize + 1, err |-> "nil"]
        ELSE [vehicles |-> fetched, nextPageToken |-> EmptyToken,
              fetched |-> fetched, limit |-> pageSize + 1, err |-> "nil"]

ListError(msg) ==
    [vehicles |-> <<>>, nextPageToken |-> EmptyToken, fetched |-> <<>>,
     limit |-> 0, err |-> msg]

\* store.ListVehicles: the results it may return for params on table tbl
StoreListVehicles(tbl, params) ==
    LET pageSize == StorePageSize(params.PageSize)
        decoded  == Base64Decode(params.PageToken)
        parsed   == UnmarshalText(decoded.text)
        cursorTime == IF params.PageToken = EmptyToken THEN ZeroTime ELSE parsed.time
        statusStr == IF params.StatusFilter = NoFilter THEN EmptyStr
                     ELSE params.StatusFilter
        vehicleTypeStr == IF params.VehicleTypeFilter = NoFilter THEN EmptyStr
                          ELSE params.VehicleTypeFilter
        makeFilter == IF params.MakeFilter = NoFilter THEN EmptyStr
                      ELSE params.MakeFilter
        cursorStr == IF cursorTime = ZeroTime THEN EmptyText ELSE MarshalText(cursorTime)
    IN  IF params.PageToken # EmptyToken /\ decoded.err
        THEN {ListError("invalid page token")}
        ELSE IF params.PageToken # EmptyToken /\ parsed.err
        THEN {ListError("invalid page token format")}
        ELSE {ListVehiclesPage(f, pageSize) :
                f \in ListVehiclesQuery(tbl, statusStr, vehicleTypeStr, makeFilter,
                                        cursorStr, pageSize + 1)}

\* service.ListVehicles: the responses it may give; a store error becomes Internal
ServiceListVehicles(tbl, req) ==
    LET params == [PageSize |-> ServicePageSize(req.page_size),
                   PageToken |-> req.page_token,
                   StatusFilter |-> req.status_filter,
                   VehicleTypeFilter |->
                       IF req.vehicle_type_filter \in {NoFilter, EmptyStr} THEN NoFilter
                       ELSE req.vehicle_type_filter,
                   MakeFilter |->
                       IF req.make_filter \in {NoFilter, EmptyStr} THEN NoFilter
                       ELSE req.make_filter]
    IN  {[r EXCEPT !.err = IF r.err = "nil" THEN "OK" ELSE "Internal"] :
            r \in StoreListVehicles(tbl, params)}

\* grpcHandler.ListVehicles
HandlerListVehicles(tbl, req) ==
    ServiceListVehicles(tbl, [req EXCEPT !.page_size = HandlerPageSize(req.page_size)])

(***************************************************************************)
(* Identifiers and request validation                                      *)
(***************************************************************************)

MaxOps == 3        \* requests a run of SpecSeq starts
MaxTime == 2       \* last clock tick
MaxUUIDs == 2      \* UUID texts a request can name

UUIDs == {UUIDOf(i) : i \in 1..MaxUUIDs}

\* uuid.FromString: a UUID text parses, anything else is an error
UUIDFromString(str) ==
    IF \E i \in 1..(MaxUUIDs + MaxOps + 1) : str = UUIDOf(i)
    THEN [err |-> FALSE, id |-> str]
    ELSE [err |-> TRUE, id |-> EmptyStr]

\* uuid.NewV4: a random UUID, which no row and no request in flight holds
NewV4(used) ==
    UUIDOf(CHOOSE i \in 1..(Cardinality(used) + 1) :
              /\ UUIDOf(i) \notin used
              /\ \A j \in 1..(i - 1) : UUIDOf(j) \in used)

\* snowflake.New(nodeID).Next() on a generator made for this one call: the
\* clock's tick with sequence number 0 (the node id is the same in every call)
SnowflakeNext(t) == <<t, 0>>

\* strings.ToUpper(strings.TrimSpace(s)) on the texts requests carry
ToUpperTrim(str) ==
    CASE str = " kaa 001a" -> "KAA 001A"
      [] str = "dl1234567 " -> "DL1234567"
      [] OTHER -> str

\* the texts kenyaLicensePlateRegex and its three companions match
MatchesLicensePlate(plate) == plate \in {"KAA 001A", "KBB 002B", "KCC 003C"}

ValidateLicensePlate(licensePlate) ==
    LET plate == ToUpperTrim(licensePlate)
    IN IF plate = EmptyStr THEN "cannot be empty"
       ELSE IF MatchesLicensePlate(plate) THEN "nil"
       ELSE "invalid Kenyan license plate format"

\* parts is at most two fields in every text of the model
NormalizeLicensePlate(licensePlate) == ToUpperTrim(licensePlate)

ValidateVehicleTypeID(typeID) == IF typeID = EmptyStr THEN "cannot be empty" ELSE "nil"
ValidateVehicleMake(make) == IF make = EmptyStr THEN "cannot be empty" ELSE "nil"
ValidateColor(color) == IF color = EmptyStr THEN "cannot be empty" ELSE "nil"

\* every year of the model is in the past, so only the lower limit can bind
ValidateVehicleYear(year) == IF year < 1900 THEN "must be between 1900 and next year" ELSE "nil"

NormalizeVehicleFields(input) ==
    [input EXCEPT !.license_plate = NormalizeLicensePlate(input.license_plate)]

\* the first error of the checks in their order, "nil" when all pass; applied to
\* the normalized input
ValidateCreateVehicleRequest(vehicle) ==
    IF ValidateVehicleTypeID(vehicle.vehicle_type_id) # "nil"
    THEN ValidateVehicleTypeID(vehicle.vehicle_type_id)
    ELSE IF ValidateLicensePlate(vehicle.license_plate) # "nil"
    THEN ValidateLicensePlate(vehicle.license_plate)
    ELSE IF ValidateVehicleMake(vehicle.make) # "nil"
    THEN ValidateVehicleMake(vehicle.make)
    ELSE IF ValidateVehicleYear(vehicle.year) # "nil"
    THEN ValidateVehicleYear(vehicle.year)
    ELSE ValidateColor(vehicle.color)

ValidateVehicleStatus(status) ==
    IF status = "STATUS_UNSPECIFIED" THEN "vehicle status must be specified" ELSE "nil"

(***************************************************************************)
(* Vehicle store                                                           *)
(***************************************************************************)

NoVehicle == [external_id |-> EmptyStr, status |-> "STATUS_UNSPECIFIED"]

\* the proto message of a row: a NULL engine number reads as the empty string
populateVehicle(row) ==
    [row EXCEPT !.engine_number = IF @ = NULL THEN EmptyStr ELSE @,
                !.registration_date = IF @ = NULL THEN EmptyStr ELSE @]

StoreGetVehicleTypeByID(types, id) ==
    IF id \in types THEN "nil" ELSE "ErrVehicleTypeNotFound"

StoreGetVehicleByID(tbl, externalID) ==
    IF \E row \in tbl : row.external_id = externalID
    THEN [err |-> "nil",
          vehicle |-> populateVehicle(CHOOSE row \in tbl : row.external_id = externalID)]
    ELSE [err |-> "ErrVehicleNotFound", vehicle |-> NoVehicle]

StoreGetVehicleByLicensePlate(tbl, licensePlate) ==
    IF \E row \in tbl : row.license_plate = licensePlate
    THEN [err |-> "nil",
          vehicle |-> populateVehicle(CHOOSE row \in tbl : row.license_plate = licensePlate)]
    ELSE [err |-> "ErrVehicleNotFound", vehicle |-> NoVehicle]

\* the keys of table vehicles: PRIMARY KEY internal_id, UNIQUE external_id,
\* UNIQUE license_plate; an INSERT that repeats one fails with error 1062
VehicleDuplicateKey(tbl, row) ==
    \E old \in tbl : \/ old.internal_id = row.internal_id
                     \/ old.external_id = row.external_id
                     \/ old.license_plate = row.license_plate

\* store.CreateVehicle: the INSERT with status ACTIVE and both timestamps now
StoreCreateVehicle(tbl, internalID, externalID, vehicle, t) ==
    LET row == VehicleRow(internalID, externalID, vehicle.vehicle_type_id,
                          vehicle.license_plate, vehicle.make, vehicle.year, vehicle.color,
                          IF vehicle.engine_number # EmptyStr THEN vehicle.engine_number
                          ELSE NULL,
                          NULL, "ACTIVE", t, t)
    IN IF VehicleDuplicateKey(tbl, row)
       THEN [err |-> "ErrDuplicateEntry", tbl |-> tbl]
       ELSE [err |-> "nil", tbl |-> tbl \cup {row}]

\* an UPDATE: the rows in where, those the WHERE clause matches, get the values
\* set gives them by the SET clause; RowsAffected counts the rows whose values
\* changed
ExecUpdate(tbl, where, set) ==
    LET changed == {row \in where : set[row] # row}
    IN [rowsAffected |-> Cardinality(changed),
        tbl |-> (tbl \ changed) \cup {set[row] : row \in changed}]

\* store.UpdateVehicleStatus
StoreUpdateVehicleStatus(tbl, externalID, status, t) ==
    LET Where(row) == row.external_id = externalID
        Set(row) == [row EXCEPT !.status = status, !.updated_at = t]
        result == ExecUpdate(tbl, {row \in tbl : Where(row)}, [row \in tbl |-> Set(row)])
    IN IF result.rowsAffected = 0
       THEN [err |-> "ErrVehicleNotFound", tbl |-> tbl]
       ELSE [err |-> "nil", tbl |-> result.tbl]

\* faulty variant: the soft delete without its status condition
DeleteVehicleWhere_NoStatus(row, externalID) == row.external_id = externalID

\* deleteVehicleQuery: WHERE external_id = ? AND status != 'RETIRED'
DeleteVehicleWhere(row, externalID) ==
    row.external_id = externalID /\ row.status # "RETIRED"

\* faulty variant: the soft delete writes the zero time to updated_at
StoreDeleteVehicle_ZeroTime(tbl, externalID, t) ==
    LET Where(row) == DeleteVehicleWhere(row, externalID)
        Set(row) == [row EXCEPT !.status = "RETIRED", !.updated_at = ZeroTime]
        result == ExecUpdate(tbl, {row \in tbl : Where(row)}, [row \in tbl |-> Set(row)])
    IN IF result.rowsAffected = 0
       THEN [err |-> "ErrVehicleNotFound", tbl |-> tbl]
       ELSE [err |-> "nil", tbl |-> result.tbl]

\* store.DeleteVehicle
StoreDeleteVehicle(tbl, externalID, t) ==
    LET Where(row) == DeleteVehicleWhere(row, externalID)
        Set(row) == [row EXCEPT !.status = "RETIRED", !.updated_at = t]
        result == ExecUpdate(tbl, {row \in tbl : Where(row)}, [row \in tbl |-> Set(row)])
    IN IF result.rowsAffected = 0
       THEN [err |-> "ErrVehicleNotFound", tbl |-> tbl]
       ELSE [err |-> "nil", tbl |-> result.tbl]

(***************************************************************************)
(* Vehicle service, a request handled with nothing else running            *)
(***************************************************************************)

ExternalIDs(tbl) == {row.external_id : row \in tbl}

\* service.CreateVehicle
ServiceCreateVehicle(types, tbl, req, t) ==
    LET vehicle == NormalizeVehicleFields(req)
        internalID == SnowflakeNext(t)
        externalID == NewV4(ExternalIDs(tbl))
        created == StoreCreateVehicle(tbl, internalID, externalID, vehicle, t)
    IN IF ValidateCreateVehicleRequest(vehicle) # "nil"
       THEN [code |-> "InvalidArgument", tbl |-> tbl]
       ELSE IF StoreGetVehicleTypeByID(types, vehicle.vehicle_type_id) # "nil"
       THEN [code |-> "InvalidArgument", tbl |-> tbl]
       ELSE IF StoreGetVehicleByLicensePlate(tbl, vehicle.license_plate).err = "nil"
       THEN [code |-> "AlreadyExists", tbl |-> tbl]
       ELSE IF created.err = "ErrDuplicateEntry"
       THEN [code |-> "AlreadyExists", tbl |-> tbl]
       ELSE IF StoreGetVehicleByID(created.tbl, externalID).err # "nil"
       THEN [code |-> "Internal", tbl |-> created.tbl]
       ELSE [code |-> "OK", tbl |-> created.tbl]

\* service.UpdateVehicleStatus
ServiceUpdateVehicleStatus(tbl, req, t) ==
    LET parsed == UUIDFromString(req.vehicle_id)
        current == StoreGetVehicleByID(tbl, parsed.id)
        updated == StoreUpdateVehicleStatus(tbl, parsed.id, req.status, t)
    IN IF req.vehicle_id = EmptyStr
       THEN [code |-> "InvalidArgument", tbl |-> tbl]
       ELSE IF ValidateVehicleStatus(req.status) # "nil"
       THEN [code |-> "InvalidArgument", tbl |-> tbl]
       ELSE IF parsed.err
       THEN [code |-> "InvalidArgument", tbl |-> tbl]
       ELSE IF current.err # "nil"
       THEN [code |-> "NotFound", tbl |-> tbl]
       ELSE IF ~IsValidStatusTransition(current.vehicle.status, req.status)
       THEN [code |-> "InvalidArgument", tbl |-> tbl]
       ELSE IF updated.err # "nil"
       THEN [code |-> "NotFound", tbl |-> tbl]
       ELSE [code |-> "OK", tbl |-> updated.tbl]

\* faulty variant: DeleteVehicle without the business rule on assigned vehicles
ServiceDeleteVehicle_NoRule(tbl, req, t) ==
    LET parsed == UUIDFromString(req.vehicle_id)
        existing == StoreGetVehicleByID(tbl, parsed.id)
        deleted == StoreDeleteVehicle(tbl, parsed.id, t)
    IN IF req.vehicle_id = EmptyStr \/ parsed.err
       THEN [code |-> "InvalidArgument", tbl |-> tbl]
       ELSE IF existing.err # "nil" \/ deleted.err # "nil"
       THEN [code |-> "NotFound", tbl |-> tbl]
       ELSE [code |-> "OK", tbl |-> deleted.tbl]

\* service.DeleteVehicle
ServiceDeleteVehicle(tbl, req, t) ==
    LET parsed == UUIDFromString(req.vehicle_id)
        existing == StoreGetVehicleByID(tbl, parsed.id)
        deleted == StoreDeleteVehicle(tbl, parsed.id, t)
    IN IF req.vehicle_id = EmptyStr
       THEN [code |-> "InvalidArgument", tbl |-> tbl]
       ELSE IF parsed.err
       THEN [code |-> "InvalidArgument", tbl |-> tbl]
       ELSE IF existing.err # "nil"
       THEN [code |-> "NotFound", tbl |-> tbl]
       ELSE IF existing.vehicle.status = "ASSIGNED"
       THEN [code |-> "FailedPrecondition", tbl |-> tbl]
       ELSE IF deleted.err # "nil"
       THEN [code |-> "NotFound", tbl |-> tbl]
       ELSE [code |-> "OK", tbl |-> deleted.tbl]

(***************************************************************************)
(* Staff store: drivers and driver certifications                          *)
(***************************************************************************)

TicksPerDay == 2   \* clock ticks in one calendar day

\* Time.Format("2006-01-02"): the day a time falls in
FormatDate(t) == t \div TicksPerDay

\* time.Parse("2006-01-02", ...): midnight of a day
ParseDate(day) == day * TicksPerDay

\* a row of table drivers with the columns the handlers read or write
\* (license_class, phone_number, the emergency contact and hire_date are plain
\* data columns like experience_years)
DriverRow(internalID, externalID, userID, licenseNumber, licenseExpiry, experienceYears, status, createdAt, updatedAt) ==
    [internal_id |-> internalID, external_id |-> externalID, user_id |-> userID,
     license_number |-> licenseNumber, license_expiry |-> licenseExpiry,
     experience_years |-> experienceYears,
     status |-> status, created_at |-> createdAt, updated_at |-> updatedAt]

NoDriver == [external_id |-> EmptyStr, status |-> "STATUS_UNSPECIFIED",
             LicenseExpired |-> FALSE]

\* the proto message of a row, read at time t: LicenseExpired is computed
populateDriver(row, t) ==
    [external_id |-> row.external_id, user_id |-> row.user_id,
     license_number |-> row.license_number,
     license_expiry |-> ParseDate(row.license_expiry),
     experience_years |-> row.experience_years,
     LicenseExpired |-> ParseDate(row.license_expiry) < t,
     status |-> row.status, created_at |-> row.created_at,
     updated_at |-> row.updated_at]

\* the row a query found, if any, as the proto message
scanDriver(found, t) ==
    IF found # {}
    THEN [err |-> "nil", driver |-> populateDriver(CHOOSE row \in found : TRUE, t)]
    ELSE [err |-> "ErrDriverNotFound", driver |-> NoDriver]

StoreGetDriverByID(tbl, externalID, t) ==
    scanDriver({row \in tbl : row.external_id = externalID}, t)

StoreGetDriverByUserID(tbl, userID, t) ==
    scanDriver({row \in tbl : row.user_id = userID}, t)

StoreGetDriverByLicenseNumber(tbl, licenseNumber, t) ==
    scanDriver({row \in tbl : row.license_number = licenseNumber}, t)

\* the keys of table drivers: PRIMARY KEY internal_id and UNIQUE external_id,
\* user_id, license_number
DriverDuplicateKey(tbl, row) ==
    \E old \in tbl : \/ old.internal_id = row.internal_id
                     \/ old.external_id = row.external_id
                     \/ old.user_id = row.user_id
                     \/ old.license_number = row.license_number

\* faulty variant: the INSERT stores the new driver as ACTIVE
StoreCreateDriver_Active(tbl, internalID, externalID, driver, t) ==
    LET row == DriverRow(internalID, externalID, driver.UserID, driver.LicenseNumber,
                         FormatDate(ParseDate(driver.LicenseExpiry)),
                         driver.ExperienceYears, "ACTIVE", t, t)
    IN IF DriverDuplicateKey(tbl, row)
       THEN [err |-> "ErrDuplicateEntry", tbl |-> tbl]
       ELSE [err |-> "nil", tbl |-> tbl \cup {row}]

\* store.CreateDriver: the INSERT with status PENDING_VERIFICATION; driver
\* carries the expiry already formatted as a date
StoreCreateDriver(tbl, internalID, externalID, driver, t) ==
    LET row == DriverRow(internalID, externalID, driver.UserID, driver.LicenseNumber,
                         FormatDate(ParseDate(driver.LicenseExpiry)),
                         driver.ExperienceYears, "PENDING_VERIFICATION", t, t)
    IN IF DriverDuplicateKey(tbl, row)
       THEN [err |-> "ErrDuplicateEntry", tbl |-> tbl]
       ELSE [err |-> "nil", tbl |-> tbl \cup {row}]

\* faulty variant: the status UPDATE also writes created_at
StoreUpdateDriverStatus_TouchCreatedAt(tbl, externalID, status, t) ==
    LET Where(row) == row.external_id = externalID
        Set(row) == [row EXCEPT !.status = status, !.created_at = t, !.updated_at = t]
        result == ExecUpdate(tbl, {row \in tbl : Where(row)}, [row \in tbl |-> Set(row)])
    IN IF result.rowsAffected = 0
       THEN [err |-> "ErrDriverNotFound", tbl |-> tbl]
       ELSE [err |-> "nil", tbl |-> result.tbl]

\* store.UpdateDriverStatus
StoreUpdateDriverStatus(tbl, externalID, status, t) ==
    LET Where(row) == row.external_id = externalID
        Set(row) == [row EXCEPT !.status = status, !.updated_at = t]
        result == ExecUpdate(tbl, {row \in tbl : Where(row)}, [row \in tbl |-> Set(row)])
    IN IF result.rowsAffected = 0
       THEN [err |-> "ErrDriverNotFound", tbl |-> tbl]
       ELSE [err |-> "nil", tbl |-> result.tbl]

\* faulty variant: the delete removes the row
StoreDeleteDriver_RemoveRow(tbl, externalID, t) ==
    LET found == {row \in tbl : row.external_id = externalID /\ row.status # "INACTIVE"}
    IN IF found = {}
       THEN [err |-> "ErrDriverNotFound", tbl |-> tbl]
       ELSE [err |-> "nil", tbl |-> tbl \ found]

\* store.DeleteDriver: WHERE external_id = ? AND status != 'INACTIVE'
StoreDeleteDriver(tbl, externalID, t) ==
    LET Where(row) == row.external_id = externalID /\ row.status # "INACTIVE"
        Set(row) == [row EXCEPT !.status = "INACTIVE", !.updated_at = t]
        result == ExecUpdate(tbl, {row \in tbl : Where(row)}, [row \in tbl |-> Set(row)])
    IN IF result.rowsAffected = 0
       THEN [err |-> "ErrDriverNotFound", tbl |-> tbl]
       ELSE [err |-> "nil", tbl |-> result.tbl]

\* updated_at of a row no UPDATE has touched: SQL NULL
NullTime == -1

\* a row of table driver_certifications (certification_name, issued_by and the
\* two dates are plain data columns)
CertRow(id, driverID, status, createdAt, updatedAt) ==
    [id |-> id, driver_id |-> driverID, status |-> status,
     created_at |-> createdAt, updated_at |-> updatedAt]

\* store.AddDriverCertification: the INSERT; status takes the column default
\* CERT_ACTIVE; a repeated PRIMARY KEY id is an error like any other
StoreAddDriverCertification(tbl, certID, driverID, t) ==
    IF \E old \in tbl : old.id = certID
    THEN [err |-> "failed to add certification", tbl |-> tbl]
    ELSE [err |-> "nil",
          tbl |-> tbl \cup {CertRow(certID, driverID, "CERT_ACTIVE", t, NullTime)}]

\* store.DeleteCertification: WHERE id = ? AND status != 'CERT_REVOKED'
StoreDeleteCertification(tbl, certID, t) ==
    LET Where(row) == row.id = certID /\ row.status # "CERT_REVOKED"
        Set(row) == [row EXCEPT !.status = "CERT_REVOKED", !.updated_at = t]
        result == ExecUpdate(tbl, {row \in tbl : Where(row)}, [row \in tbl |-> Set(row)])
    IN IF result.rowsAffected = 0
       THEN [err |-> "ErrCertificationNotFound", tbl |-> tbl]
       ELSE [err |-> "nil", tbl |-> result.tbl]

(***************************************************************************)
(* Staff service, a request handled with nothing else running              *)
(***************************************************************************)

\* the texts kenyaLicenseRegex and legacyLicenseRegex match
MatchesLicense(license) == license \in {"DL1234567", "DL7654321", "DL1112223"}

ValidateKenyanLicense(licenseNumber) ==
    LET license == ToUpperTrim(licenseNumber)
    IN IF license = EmptyStr THEN "cannot be empty"
       ELSE IF MatchesLicense(license) THEN "nil"
       ELSE "invalid Kenyan driving license format"

\* faulty variant: the license number is stored as typed
NormalizeLicense_AsTyped(licenseNumber) == licenseNumber

NormalizeLicense(licenseNumber) == ToUpperTrim(licenseNumber)

\* the user ids of the model are 36 characters long, the empty one excepted
ValidateUserID(userID) == IF userID = EmptyStr THEN "cannot be empty" ELSE "nil"

ValidateDriverStatus(status) ==
    IF status = "STATUS_UNSPECIFIED" THEN "driver status must be specified" ELSE "nil"

NormalizeDriverFields(input) ==
    [input EXCEPT !.license_number = NormalizeLicense(input.license_number)]

\* the first error of the checks in their order; every expiry of the model is
\* within a year of the clock, so ValidateLicenseExpiry passes
ValidateCreateDriverRequest(driver) ==
    IF ValidateUserID(driver.user_id) # "nil"
    THEN ValidateUserID(driver.user_id)
    ELSE ValidateKenyanLicense(driver.license_number)

\* service.CreateDriver
ServiceCreateDriver(tbl, req, t) ==
    LET driver == NormalizeDriverFields(req)
        licenseExpiry == driver.license_expiry
        internalID == SnowflakeNext(t)
        externalID == NewV4(ExternalIDs(tbl))
        driverData == [UserID |-> driver.user_id, LicenseNumber |-> driver.license_number,
                       LicenseExpiry |-> FormatDate(licenseExpiry),
                       ExperienceYears |-> driver.experience_years]
        created == StoreCreateDriver(tbl, internalID, externalID, driverData, t)
    IN IF ValidateCreateDriverRequest(driver) # "nil"
       THEN [code |-> "InvalidArgument", tbl |-> tbl]
       ELSE IF StoreGetDriverByLicenseNumber(tbl, driver.license_number, t).err = "nil"
       THEN [code |-> "AlreadyExists", tbl |-> tbl]
       ELSE IF StoreGetDriverByUserID(tbl, driver.user_id, t).err = "nil"
       THEN [code |-> "AlreadyExists", tbl |-> tbl]
       ELSE IF licenseExpiry < t
       THEN [code |-> "InvalidArgument", tbl |-> tbl]
       ELSE IF created.err = "ErrDuplicateEntry"
       THEN [code |-> "AlreadyExists", tbl |-> tbl]
       ELSE IF StoreGetDriverByID(created.tbl, externalID, t).err # "nil"
       THEN [code |-> "Internal", tbl |-> created.tbl]
       ELSE [code |-> "OK", tbl |-> created.tbl]

\* faulty variant: the business guard is evaluated before the edge check
ServiceUpdateDriverStatus_GuardFirst(tbl, req, t) ==
    LET parsed == UUIDFromString(req.driver_id)
        currentDriver == StoreGetDriverByID(tbl, parsed.id, t)
        updated == StoreUpdateDriverStatus(tbl, parsed.id, req.status, t)
    IN IF req.driver_id = EmptyStr \/ ValidateDriverStatus(req.status) # "nil" \/ parsed.err
       THEN [code |-> "InvalidArgument", tbl |-> tbl]
       ELSE IF currentDriver.err # "nil"
       THEN [code |-> "NotFound", tbl |-> tbl]
       ELSE IF req.status = "ACTIVE" /\ currentDriver.driver.LicenseExpired
       THEN [code |-> "FailedPrecondition", tbl |-> tbl]
       ELSE IF ~IsValidDriverStatusTransition(currentDriver.driver.status, req.status)
       THEN [code |-> "InvalidArgument", tbl |-> tbl]
       ELSE IF updated.err # "nil"
       THEN [code |-> "NotFound", tbl |-> tbl]
       ELSE [code |-> "OK", tbl |-> updated.tbl]

\* service.UpdateDriverStatus
ServiceUpdateDriverStatus(tbl, req, t) ==
    LET parsed == UUIDFromString(req.driver_id)
        currentDriver == StoreGetDriverByID(tbl, parsed.id, t)
        updated == StoreUpdateDriverStatus(tbl, parsed.id, req.status, t)
    IN IF req.driver_id = EmptyStr
       THEN [code |-> "InvalidArgument", tbl |-> tbl]
       ELSE IF ValidateDriverStatus(req.status) # "nil"
       THEN [code |-> "InvalidArgument", tbl |-> tbl]
       ELSE IF parsed.err
       THEN [code |-> "InvalidArgument", tbl |-> tbl]
       ELSE IF currentDriver.err # "nil"
       THEN [code |-> "NotFound", tbl |-> tbl]
       ELSE IF ~IsValidDriverStatusTransition(currentDriver.driver.status, req.status)
       THEN [code |-> "InvalidArgument", tbl |-> tbl]
       ELSE IF req.status = "ACTIVE" /\ currentDriver.driver.LicenseExpired
       THEN [code |-> "FailedPrecondition", tbl |-> tbl]
       ELSE IF updated.err # "nil"
       THEN [code |-> "NotFound", tbl |-> tbl]
       ELSE [code |-> "OK", tbl |-> updated.tbl]

\* service.DeleteDriver: an ACTIVE driver is only logged, not refused
ServiceDeleteDriver(tbl, req, t) ==
    LET parsed == UUIDFromString(req.driver_id)
        existingDriver == StoreGetDriverByID(tbl, parsed.id, t)
        deleted == StoreDeleteDriver(tbl, parsed.id, t)
    IN IF req.driver_id = EmptyStr
       THEN [code |-> "InvalidArgument", tbl |-> tbl]
       ELSE IF parsed.err
       THEN [code |-> "InvalidArgument", tbl |-> tbl]
       ELSE IF existingDriver.err # "nil"
       THEN [code |-> "NotFound", tbl |-> tbl]
       ELSE IF deleted.err # "nil"
       THEN [code |-> "NotFound", tbl |-> tbl]
       ELSE [code |-> "OK", tbl |-> deleted.tbl]

\* fmt.Sprintf("%d", certID): the decimal text of a certification id
FormatUint(id) == <<"dec", id>>

\* strconv.ParseUint(text, 10, 64); the empty text is <<>>
ParseUint(text) ==
    IF Len(text) = 2 /\ text[1] = "dec"
    THEN [err |-> FALSE, id |-> text[2]]
    ELSE [err |-> TRUE, id |-> SnowflakeNext(0)]

\* service.AddDriverCertification (the certification of the model's requests
\* passes ValidateAddCertificationRequest)
ServiceAddDriverCertification(driverTbl, tbl, req, t) ==
    LET parsed == UUIDFromString(req.driver_id)
        certID == SnowflakeNext(t)
        added == StoreAddDriverCertification(tbl, certID, parsed.id, t)
    IN IF req.driver_id = EmptyStr
       THEN [code |-> "InvalidArgument", tbl |-> tbl]
       ELSE IF parsed.err
       THEN [code |-> "InvalidArgument", tbl |-> tbl]
       ELSE IF StoreGetDriverByID(driverTbl, parsed.id, t).err # "nil"
       THEN [code |-> "NotFound", tbl |-> tbl]
       ELSE IF added.err # "nil"
       THEN [code |-> "Internal", tbl |-> tbl]
       ELSE [code |-> "OK", tbl |-> added.tbl]

\* service.DeleteCertification: no read before the conditional write
ServiceDeleteCertification(tbl, req, t) ==
    LET parsed == ParseUint(req.certification_id)
        deleted == StoreDeleteCertification(tbl, parsed.id, t)
    IN IF req.certification_id = <<>>
       THEN [code |-> "InvalidArgument", tbl |-> tbl]
       ELSE IF parsed.err
       THEN [code |-> "InvalidArgument", tbl |-> tbl]
       ELSE IF deleted.err # "nil"
       THEN [code |-> "NotFound", tbl |-> tbl]
       ELSE [code |-> "OK", tbl |-> deleted.tbl]

(***************************************************************************)
(* Bounds                                                                  *)
(***************************************************************************)

MaxListRows == 3      \* rows in the table a List iteration runs over
MaxListTime == 3      \* created_at values of those rows are 1..MaxListTime
MaxPageReq  == 2      \* requested page sizes 0..MaxPageReq (and one above the maximum)

(***************************************************************************)
(* Idle values                                                             *)
(***************************************************************************)

NoListReq ==
    [page_size |-> 0, page_token |-> EmptyToken, status_filter |-> NoFilter,
     vehicle_type_filter |-> NoFilter, make_filter |-> NoFilter]
NoListOut == [returned |-> <<>>, calls |-> 0, lastCall |-> ListError("none"), done |-> TRUE]
NoOp == [op |-> "none"]

IdleLife ==
    /\ now = 0
    /\ vehicleTypes = {}
    /\ vehicles = {}
    /\ drivers = {}
    /\ certs = {}
    /\ pc = <<>>
    /\ loc = <<>>
    /\ last = NoOp
    /\ nops = 0

IdleFSM == trDriver = NoCall /\ trVehicle = NoCall
IdleList == listReq = NoListReq /\ listOut = NoListOut
NoOAuthLog == [issued |-> {}, accepted |-> <<>>]
IdleBoot == typeRows = {} /\ oauthStates = {} /\ oauthLog = NoOAuthLog

(***************************************************************************)
(* SpecFSM                                                                 *)
(***************************************************************************)

InitFSM ==
    /\ trDriver \in [from : DriverStatuses, to : DriverStatuses, called : {FALSE},
                     result : {FALSE}]
    /\ trVehicle \in [from : VehicleStatuses, to : VehicleStatuses, called : {FALSE},
                      result : {FALSE}]
    /\ IdleLife
    /\ IdleList
    /\ IdleBoot

NextFSM == CheckDriverTransition \/ CheckVehicleTransition

SpecFSM == InitFSM /\ [][NextFSM]_vars

\* the edges the transition table of the specification lists
DriverEdges ==
    {<<"PENDING_VERIFICATION", "ACTIVE">>, <<"PENDING_VERIFICATION", "INACTIVE">>,
     <<"ACTIVE", "SUSPENDED">>, <<"ACTIVE", "INACTIVE">>,
     <<"SUSPENDED", "ACTIVE">>, <<"SUSPENDED", "INACTIVE">>,
     <<"INACTIVE", "ACTIVE">>, <<"INACTIVE", "PENDING_VERIFICATION">>}

VehicleEdges ==
    {<<"ACTIVE", "ASSIGNED">>, <<"ACTIVE", "MAINTENANCE">>, <<"ACTIVE", "RETIRED">>,
     <<"ASSIGNED", "ACTIVE">>, <<"ASSIGNED", "MAINTENANCE">>,
     <<"MAINTENANCE", "ACTIVE">>, <<"MAINTENANCE", "RETIRED">>}

\* C2: IsValidDriverStatusTransition(from, to) is true exactly for the eight
\* driver edges and IsValidStatusTransition(from, to) exactly for the seven
\* vehicle edges; every other pair, (s, s) and any pair out of RETIRED or
\* STATUS_UNSPECIFIED included, gives false.
Thm_C2_TransitionCompleteness ==
    /\ trDriver.called => (trDriver.result <=> <<trDriver.from, trDriver.to>> \in DriverEdges)
    /\ trVehicle.called =>
          (trVehicle.result <=> <<trVehicle.from, trVehicle.to>> \in VehicleEdges)

\* both checks have run, one on a self pair it rejects and one on a pair out of
\* the terminal status
Wit_C2_TransitionCompleteness ==
    /\ trDriver.called /\ trDriver.from = "ACTIVE" /\ trDriver.to = "ACTIVE"
    /\ ~trDriver.result
    /\ trVehicle.called /\ trVehicle.from = "RETIRED" /\ trVehicle.to = "ACTIVE"
    /\ ~trVehicle.result

(***************************************************************************)
(* SpecList: a client pages through ListVehicles, passing each nextToken   *)
(* back, over a table no request writes to                                 *)
(***************************************************************************)

\* license plate of the i-th vehicle of a populated table; its id was allocated
\* at a tick of its own before the first created_at
PlateOf(i) == "KAA 00" \o ToString(i) \o "A"

\* a stored vehicle as CreateVehicle leaves it, but for its status
ListRow(i, status, createdAt) ==
    VehicleRow(SnowflakeNext(i - MaxListRows), UUIDOf(i), "1", PlateOf(i), "Toyota", 2018, "Blue", NULL, NULL,
               status, createdAt, createdAt)

ListTables ==
    UNION {{{ListRow(i, st[i], cr[i]) : i \in 1..n} :
               st \in [1..n -> {"ACTIVE", "MAINTENANCE"}], cr \in [1..n -> 1..MaxListTime]} :
           n \in 0..MaxListRows}

PageSizeInputs == (0..MaxPageReq) \cup {MaxPageSize + 1}

InitList ==
    /\ vehicles \in ListTables
    /\ now = MaxListTime
    /\ vehicleTypes = {"1"}
    /\ drivers = {} /\ certs = {}
    /\ pc = <<>> /\ loc = <<>> /\ last = NoOp /\ nops = 0
    /\ listReq \in [page_size : PageSizeInputs, page_token : {EmptyToken},
                    status_filter : {NoFilter, "ACTIVE"},
                    vehicle_type_filter : {NoFilter}, make_filter : {NoFilter}]
    /\ listOut = [returned |-> <<>>, calls |-> 0, lastCall |-> ListError("none"),
                  done |-> FALSE]
    /\ IdleFSM
    /\ IdleBoot

\* one ListVehicles call with the current token; the client keeps the page and
\* the token it got back
ListNextPage ==
    /\ ~listOut.done
    /\ \E r \in HandlerListVehicles(vehicles, listReq) :
          /\ listOut' = [returned |-> listOut.returned \o r.vehicles,
                         calls |-> listOut.calls + 1,
                         lastCall |-> r,
                         done |-> (r.err # "OK" \/ r.nextPageToken = EmptyToken)]
          /\ listReq' = [listReq EXCEPT !.page_token = r.nextPageToken]
    /\ UNCHANGED <<lifeVars, fsmVars, bootVars>>

NextList == ListNextPage

SpecList == InitList /\ [][NextList]_vars

\* the page size the three layers agree on for a request
ClampedPageSize(ps) == IF ps <= 0 THEN DefaultPageSize
                       ELSE IF ps > MaxPageSize THEN MaxPageSize ELSE ps

\* the rows of the table the request's filters select
Matching ==
    {row \in vehicles : listReq.status_filter = NoFilter \/ row.status = listReq.status_filter}

DistinctCreatedAt(S) == \A a, b \in S : a.created_at = b.created_at => a = b

\* C1: over a table without writes, with distinct created_at among the matching
\* rows and a page size P in 1..100, following nextToken from the empty token
\* until it comes back empty returns every matching row exactly once, in
\* created_at descending order.
CE_C1_PageCompleteness ==
    (/\ listOut.done
     /\ listOut.lastCall.err = "OK"
     /\ listReq.page_size \in 1..MaxPageSize
     /\ DistinctCreatedAt(Matching))
    => listOut.returned \in OrderedByCreatedAtDesc(Matching)

\* three vehicles read with page size 2: the iteration has ended after two
\* calls and the oldest row was never returned
Reach_C1_RowSkipped ==
    /\ listOut.done /\ listOut.calls = 2
    /\ listReq.page_size = 2 /\ listReq.status_filter = NoFilter
    /\ Cardinality(vehicles) = 3 /\ DistinctCreatedAt(vehicles)
    /\ \E row \in vehicles : \A i \in 1..Len(listOut.returned) : listOut.returned[i] # row

\* C9: a call with effective page size P fetches P + 1 rows; when P + 1 come
\* back the first P are returned and the token encodes the created_at of the
\* last returned row; when at most P come back the token is empty.
CE_C9_NextTokenRule ==
    (listOut.calls > 0 /\ listOut.lastCall.err = "OK") =>
        LET r == listOut.lastCall
            P == ClampedPageSize(listReq.page_size)
        IN /\ r.limit = P + 1
           /\ Len(r.fetched) = P + 1 =>
                 /\ r.vehicles = SubSeq(r.fetched, 1, P)
                 /\ r.nextPageToken = EncodePageToken(r.vehicles[P].created_at)
           /\ Len(r.fetched) <= P =>
                 /\ r.vehicles = r.fetched
                 /\ r.nextPageToken = EmptyToken

\* a truncated page whose token encodes the created_at of the row cut off
Reach_C9_TokenOfDroppedRow ==
    /\ listOut.calls > 0 /\ listOut.lastCall.err = "OK"
    /\ LET r == listOut.lastCall
       IN /\ Len(r.fetched) = Len(r.vehicles) + 1
          /\ r.nextPageToken = EncodePageToken(r.fetched[Len(r.fetched)].created_at)
          /\ r.fetched[Len(r.fetched)].created_at # r.vehicles[Len(r.vehicles)].created_at

(***************************************************************************)
(* SpecSeq: requests handled one at a time, each handler run to its end    *)
(***************************************************************************)

\* a driver created at tick 0 by CreateDriver with a license expiring tomorrow
SeedDriver ==
    DriverRow(SnowflakeNext(0), UUIDOf(1), "user-1", "DL1234567",
              FormatDate(TicksPerDay), 5, "PENDING_VERIFICATION", 0, 0)

InitSeq ==
    /\ now = 1
    /\ vehicleTypes = {"1"}
    /\ vehicles = {} /\ certs = {}
    /\ drivers \in {{}, {SeedDriver}}
    /\ pc = <<>> /\ loc = <<>>
    /\ last = NoOp
    /\ nops = 0
    /\ IdleFSM /\ IdleList
    /\ IdleBoot

Tables == [vehicles |-> vehicles, drivers |-> drivers, certs |-> certs]

\* the request just handled: its handler, its message, the status code
\* returned, the clock during it and the tables it found
Done(op, req, code) ==
    last' = [op |-> op, req |-> req, code |-> code, at |-> now, before |-> Tables]

IDInputs == {EmptyStr, "not-a-uuid"} \cup UUIDs

CreateVehicleInputs ==
    {[vehicle_type_id |-> x[1], license_plate |-> x[2], make |-> "Toyota",
      year |-> 2018, color |-> "Blue", engine_number |-> EmptyStr] :
        x \in {<<"1", "KAA 001A">>, <<"1", "KBB 002B">>, <<"1", " kaa 001a">>,
               <<"9", "KAA 001A">>, <<"1", EmptyStr>>}}

CreateDriverInputs ==
    {[user_id |-> x[1], license_number |-> x[2], license_expiry |-> x[3],
      experience_years |-> 5] :
        x \in {<<"user-1", "DL1234567", now + TicksPerDay>>,
               <<"user-2", "DL7654321", now - 1>>,
               <<"user-2", "DL7654321", now>>,
               <<"user-2", "DL7654321", now + TicksPerDay>>,
               <<"user-2", "dl1234567 ", now + TicksPerDay>>,
               <<"user-1", "DL7654321", now + TicksPerDay>>,
               <<EmptyStr, "DL7654321", now + TicksPerDay>>}}

CertIDInputs ==
    {<<>>, <<"abc">>} \cup {FormatUint(SnowflakeNext(t)) : t \in 1..MaxTime}

Tick ==
    /\ now < MaxTime
    /\ now' = now + 1
    /\ UNCHANGED <<tableVars, pc, loc, last, nops, fsmVars, listVars, bootVars>>

Started ==
    /\ nops < MaxOps
    /\ nops' = nops + 1
    /\ UNCHANGED <<now, vehicleTypes, pc, loc, fsmVars, listVars, bootVars>>

CreateVehicle ==
    /\ Started
    /\ \E req \in CreateVehicleInputs :
          LET r == ServiceCreateVehicle(vehicleTypes, vehicles, req, now)
          IN vehicles' = r.tbl /\ Done("CreateVehicle", req, r.code)
    /\ UNCHANGED <<drivers, certs>>

UpdateVehicleStatus ==
    /\ Started
    /\ \E id \in IDInputs, status \in VehicleStatuses :
          LET req == [vehicle_id |-> id, status |-> status]
              r == ServiceUpdateVehicleStatus(vehicles, req, now)
          IN vehicles' = r.tbl /\ Done("UpdateVehicleStatus", req, r.code)
    /\ UNCHANGED <<drivers, certs>>

DeleteVehicle ==
    /\ Started
    /\ \E id \in IDInputs :
          LET req == [vehicle_id |-> id]
              r == ServiceDeleteVehicle(vehicles, req, now)
          IN vehicles' = r.tbl /\ Done("DeleteVehicle", req, r.code)
    /\ UNCHANGED <<drivers, certs>>

CreateDriver ==
    /\ Started
    /\ \E req \in CreateDriverInputs :
          LET r == ServiceCreateDriver(drivers, req, now)
          IN drivers' = r.tbl /\ Done("CreateDriver", req, r.code)
    /\ UNCHANGED <<vehicles, certs>>

UpdateDriverStatus ==
    /\ Started
    /\ \E id \in IDInputs, status \in DriverStatuses :
          LET req == [driver_id |-> id, status |-> status]
              r == ServiceUpdateDriverStatus(drivers, req, now)
          IN drivers' = r.tbl /\ Done("UpdateDriverStatus", req, r.code)
    /\ UNCHANGED <<vehicles, certs>>

DeleteDriver ==
    /\ Started
    /\ \E id \in IDInputs :
          LET req == [driver_id |-> id]
              r == ServiceDeleteDriver(drivers, req, now)
          IN drivers' = r.tbl /\ Done("DeleteDriver", req, r.code)
    /\ UNCHANGED <<vehicles, certs>>

AddDriverCertification ==
    /\ Started
    /\ \E id \in IDInputs :
          LET req == [driver_id |-> id]
              r == ServiceAddDriverCertification(drivers, certs, req, now)
          IN certs' = r.tbl /\ Done("AddDriverCertification", req, r.code)
    /\ UNCHANGED <<vehicles, drivers>>

DeleteCertification ==
    /\ Started
    /\ \E id \in CertIDInputs :
          LET req == [certification_id |-> id]
              r == ServiceDeleteCertification(certs, req, now)
          IN certs' = r.tbl /\ Done("DeleteCertification", req, r.code)
    /\ UNCHANGED <<vehicles, drivers>>

NextSeq ==
    \/ Tick
    \/ CreateVehicle \/ UpdateVehicleStatus \/ DeleteVehicle
    \/ CreateDriver \/ UpdateDriverStatus \/ DeleteDriver
    \/ AddDriverCertification \/ DeleteCertification

SpecSeq == InitSeq /\ [][NextSeq]_vars

(***************************************************************************)
(* Properties of requests handled one at a time                            *)
(***************************************************************************)

\* the row a request's id names in a table, and whether there is one
HasRow(tbl, id) == \E row \in tbl : row.external_id = id
RowOf(tbl, id) == CHOOSE row \in tbl : row.external_id = id

\* a table in which exactly row old was rewritten to status st at time t
Rewritten(tbl, old, st, t) ==
    (tbl \ {old}) \cup {[old EXCEPT !.status = st, !.updated_at = t]}

\* C6: when entity A exists, a well-formed Create of an entity B with the same
\* unique key (vehicle license plate; driver license number or user id) returns
\* AlreadyExists, stores no row and leaves every column of A as it was.
Thm_C6_DuplicateDetection ==
    /\ (/\ last.op = "CreateVehicle"
        /\ ValidateCreateVehicleRequest(NormalizeVehicleFields(last.req)) = "nil"
        /\ last.req.vehicle_type_id \in vehicleTypes
        /\ \E a \in last.before.vehicles :
              a.license_plate = ToUpperTrim(last.req.license_plate))
       => (last.code = "AlreadyExists" /\ vehicles = last.before.vehicles)
    /\ (/\ last.op = "CreateDriver"
        /\ ValidateCreateDriverRequest(NormalizeDriverFields(last.req)) = "nil"
        /\ \E a \in last.before.drivers :
              \/ a.license_number = ToUpperTrim(last.req.license_number)
              \/ a.user_id = last.req.user_id)
       => (last.code = "AlreadyExists" /\ drivers = last.before.drivers)

\* a second driver was refused for the license number of the first, which it
\* spelled in lower case, under another user id
Wit_C6_DuplicateDetection ==
    /\ last.op = "CreateDriver" /\ last.code = "AlreadyExists"
    /\ last.req.license_number = "dl1234567 "
    /\ \E a \in drivers : a.license_number = "DL1234567" /\ a.user_id # last.req.user_id
    /\ drivers = last.before.drivers

IsDelete(l) == l.op \in {"DeleteVehicle", "DeleteDriver", "DeleteCertification"}

\* what a Delete request is about: the table before and after, whether its id
\* is well formed, the row it names, and the soft-delete status of the type
DeleteCase ==
    CASE last.op = "DeleteVehicle" ->
            [before |-> last.before.vehicles, after |-> vehicles, target |-> "RETIRED",
             wellFormed |-> ~UUIDFromString(last.req.vehicle_id).err,
             rows |-> {r \in last.before.vehicles : r.external_id = last.req.vehicle_id}]
      [] last.op = "DeleteDriver" ->
            [before |-> last.before.drivers, after |-> drivers, target |-> "INACTIVE",
             wellFormed |-> ~UUIDFromString(last.req.driver_id).err,
             rows |-> {r \in last.before.drivers : r.external_id = last.req.driver_id}]
      [] last.op = "DeleteCertification" ->
            [before |-> last.before.certs, after |-> certs, target |-> "CERT_REVOKED",
             wellFormed |-> ~ParseUint(last.req.certification_id).err,
             rows |-> {r \in last.before.certs :
                          FormatUint(r.id) = last.req.certification_id}]

\* the outcome of the last request if it was a Delete; refused holds the
\* handlers and statuses of the rows a handler refuses before the write
DeleteOutcome(refused) ==
    (IsDelete(last) /\ DeleteCase.wellFormed) =>
        LET c == DeleteCase
        IN /\ c.rows = {} => (last.code = "NotFound" /\ c.after = c.before)
           /\ \A row \in c.rows :
                 IF <<last.op, row.status>> \in refused
                 THEN last.code = "FailedPrecondition" /\ c.after = c.before
                 ELSE IF row.status = c.target
                 THEN last.code = "NotFound" /\ c.after = c.before
                 ELSE /\ last.code = "OK"
                      /\ c.after = Rewritten(c.before, row, c.target, last.at)

NoneRefused == {}
AssignedVehicleRefused == {<<"DeleteVehicle", "ASSIGNED">>}

\* C7 as stated: the first Delete on any existing entity not yet in the
\* soft-delete status succeeds; a Delete on an entity already in it, or on an
\* id that names nothing, returns NotFound and changes nothing.
CE_C7_SoftDelete == DeleteOutcome(NoneRefused)

\* a Delete that succeeded followed, with no other request in between, by a
\* Delete of the same id
SecondDelete ==
    /\ IsDelete(last) /\ last.code = "OK"
    /\ nops' = nops + 1
    /\ last'.op = last.op /\ last'.req = last.req

\* C7: soft delete is a conditional write: a Delete of an existing vehicle,
\* driver or certification whose status is not yet the soft-delete status
\* (RETIRED, INACTIVE, CERT_REVOKED) succeeds and stores that status, except
\* that DeleteVehicle refuses an ASSIGNED vehicle with FailedPrecondition; a
\* second Delete of the same id directly after a successful one, and a Delete
\* of an id that names nothing, return NotFound and change nothing.
Thm_C7_SoftDelete ==
    [][/\ DeleteOutcome(AssignedVehicleRefused)'
       /\ SecondDelete => (last'.code = "NotFound" /\ tableVars' = tableVars)]_vars

\* a driver was deleted and the Delete repeated: the second found nothing
Wit_C7_SoftDelete ==
    /\ last.op = "DeleteDriver" /\ last.code = "NotFound"
    /\ HasRow(last.before.drivers, last.req.driver_id)
    /\ RowOf(drivers, last.req.driver_id).status = "INACTIVE"
    /\ RowOf(drivers, last.req.driver_id).updated_at > RowOf(drivers, last.req.driver_id).created_at

IsUpdateStatus(l) == l.op \in {"UpdateVehicleStatus", "UpdateDriverStatus"}

\* what an UpdateStatus request on an existing entity is about: the table
\* before and after, the row it names, (from, to), whether (from, to) is an
\* edge of the specified table, and whether the business guard passes (only a
\* driver has one: no activation with a license that expired before the request)
UpdateStatusCase ==
    IF last.op = "UpdateVehicleStatus"
    THEN LET row == RowOf(last.before.vehicles, last.req.vehicle_id)
         IN [before |-> last.before.vehicles, after |-> vehicles, row |-> row,
             edge |-> <<row.status, last.req.status>> \in VehicleEdges,
             guard |-> TRUE]
    ELSE LET row == RowOf(last.before.drivers, last.req.driver_id)
         IN [before |-> last.before.drivers, after |-> drivers, row |-> row,
             edge |-> <<row.status, last.req.status>> \in DriverEdges,
             guard |-> ~(/\ last.req.status = "ACTIVE"
                         /\ row.license_expiry * TicksPerDay < last.at)]

OnExistingEntity ==
    /\ IsUpdateStatus(last)
    /\ IF last.op = "UpdateVehicleStatus"
       THEN HasRow(last.before.vehicles, last.req.vehicle_id)
       ELSE HasRow(last.before.drivers, last.req.driver_id)

\* the outcome of the last request if it was an UpdateStatus on an existing
\* entity; guardCode is the status code of an edge whose guard fails
UpdateStatusOutcome(guardCode) ==
    OnExistingEntity =>
        LET c == UpdateStatusCase
        IN IF c.edge /\ c.guard
           THEN /\ last.code = "OK"
                /\ c.after = Rewritten(c.before, c.row, last.req.status, last.at)
           ELSE /\ last.code = IF c.edge THEN guardCode ELSE "InvalidArgument"
                /\ c.after = c.before

\* C8 as stated: UpdateStatus succeeds and stores to when (from, to) is an edge
\* and the guards pass, and in every other case fails with InvalidArgument,
\* status and updated_at unchanged.
CE_C8_UpdateStatusSequential == UpdateStatusOutcome("InvalidArgument")

\* C8: for requests handled one at a time, UpdateStatus(id, to) on an existing
\* entity with stored status from succeeds and stores to (and the time of the
\* request as updated_at) when (from, to) is an edge and the guard passes; when
\* (from, to) is not an edge, to == from included, it fails with
\* InvalidArgument; when it is an edge whose guard fails (activating a driver
\* whose license has expired) it fails with FailedPrecondition; a failure
\* leaves every column, status and updated_at included, as it was.
Thm_C8_UpdateStatusSequential == UpdateStatusOutcome("FailedPrecondition")

\* the activation of a pending driver whose license has expired was refused
Wit_C8_UpdateStatusSequential ==
    /\ last.op = "UpdateDriverStatus" /\ last.code = "FailedPrecondition"
    /\ HasRow(drivers, last.req.driver_id)
    /\ RowOf(drivers, last.req.driver_id).status = "PENDING_VERIFICATION"
    /\ last.req.status = "ACTIVE"

\* C10: for requests handled one at a time, DeleteVehicle on a vehicle stored
\* as ASSIGNED fails with FailedPrecondition and leaves every column of every
\* row as it was; on a vehicle stored as ACTIVE or MAINTENANCE it succeeds and
\* stores RETIRED.
Thm_C10_DeleteAssignedVehicle ==
    (last.op = "DeleteVehicle" /\ HasRow(last.before.vehicles, last.req.vehicle_id)) =>
        LET row == RowOf(last.before.vehicles, last.req.vehicle_id)
        IN /\ row.status = "ASSIGNED" =>
                 (last.code = "FailedPrecondition" /\ vehicles = last.before.vehicles)
           /\ row.status \in {"ACTIVE", "MAINTENANCE"} =>
                 /\ last.code = "OK"
                 /\ HasRow(vehicles, last.req.vehicle_id)
                 /\ RowOf(vehicles, last.req.vehicle_id).status = "RETIRED"

\* an assigned vehicle was not deleted
Wit_C10_DeleteAssignedVehicle ==
    /\ last.op = "DeleteVehicle" /\ last.code = "FailedPrecondition"
    /\ HasRow(vehicles, last.req.vehicle_id)
    /\ RowOf(vehicles, last.req.vehicle_id).status = "ASSIGNED"
    /\ vehicles = last.before.vehicles

(***************************************************************************)
(* SpecConc: vehicle request handlers of two goroutines, interleaved at    *)
(* their store calls and clock reads                                       *)
(***************************************************************************)

MaxConcOps == 3    \* requests a run of SpecConc starts

Procs == {"g1", "g2"}

\* locals of a handler: its request, what it has read and allocated, the
\* status code it returned, and the goroutine whose Create of the same license
\* plate had passed the uniqueness check, and not yet inserted, when this one
\* passed it
NoLoc ==
    [op |-> "none", req |-> <<>>, code |-> "none", internalID |-> SnowflakeNext(0),
     externalID |-> EmptyStr, rival |-> "none"]

InitConc ==
    /\ now = 1
    /\ vehicleTypes = {"1"}
    /\ vehicles = {} /\ drivers = {} /\ certs = {}
    /\ pc = [p \in Procs |-> "idle"]
    /\ loc = [p \in Procs |-> NoLoc]
    /\ last = NoOp
    /\ nops = 0
    /\ IdleFSM /\ IdleList
    /\ IdleBoot

ConcCreateInputs ==
    {[vehicle_type_id |-> "1", license_plate |-> plate, make |-> "Toyota",
      year |-> 2018, color |-> "Blue", engine_number |-> EmptyStr] :
        plate \in {"KAA 001A", "KBB 002B"}}

ConcFrame == UNCHANGED <<now, vehicleTypes, drivers, certs, fsmVars, listVars, bootVars>>

\* the handler of p goes on at position next with locals l
Goto(p, next, l) ==
    /\ pc' = [pc EXCEPT ![p] = next]
    /\ loc' = [loc EXCEPT ![p] = l]
    /\ UNCHANGED last

\* the handler of p returns code
Return(p, code) ==
    /\ pc' = [pc EXCEPT ![p] = "idle"]
    /\ loc' = [loc EXCEPT ![p].code = code]
    /\ last' = [op |-> loc[p].op, req |-> loc[p].req, code |-> code, proc |-> p]

Begin(p) ==
    /\ pc[p] = "idle"
    /\ nops < MaxConcOps
    /\ nops' = nops + 1

\* service.CreateVehicle up to the uniqueness check: validation and the read
\* of the vehicle type
CreateVehicleBegin(p) ==
    /\ Begin(p)
    /\ \E req \in ConcCreateInputs :
          LET vehicle == NormalizeVehicleFields(req)
              l == [NoLoc EXCEPT !.op = "CreateVehicle", !.req = vehicle]
          IN IF \/ ValidateCreateVehicleRequest(vehicle) # "nil"
                \/ StoreGetVehicleTypeByID(vehicleTypes, vehicle.vehicle_type_id) # "nil"
             THEN /\ pc' = pc
                  /\ loc' = [loc EXCEPT ![p] = [l EXCEPT !.code = "InvalidArgument"]]
                  /\ last' = [op |-> l.op, req |-> l.req, code |-> "InvalidArgument",
                              proc |-> p]
             ELSE Goto(p, "CreateVehicle:check", l)
    /\ UNCHANGED vehicles
    /\ ConcFrame

\* a Create of the same license plate that has passed the check and not inserted
Rivals(p) ==
    {q \in Procs \ {p} : /\ pc[q] \in {"CreateVehicle:ids", "CreateVehicle:insert"}
                         /\ loc[q].req.license_plate = loc[p].req.license_plate}

\* "Check for duplicate license plate": store.GetVehicleByLicensePlate
CreateVehicleCheck(p) ==
    /\ pc[p] = "CreateVehicle:check"
    /\ IF StoreGetVehicleByLicensePlate(vehicles, loc[p].req.license_plate).err = "nil"
       THEN Return(p, "AlreadyExists")
       ELSE /\ pc' = [pc EXCEPT ![p] = "CreateVehicle:ids"]
            /\ loc' = [q \in Procs |->
                          IF q = p /\ Rivals(p) # {}
                          THEN [loc[p] EXCEPT !.rival = CHOOSE r \in Rivals(p) : TRUE]
                          ELSE IF q \in Rivals(p) THEN [loc[q] EXCEPT !.rival = p]
                          ELSE loc[q]]
            /\ UNCHANGED last
    /\ UNCHANGED <<vehicles, nops>>
    /\ ConcFrame

\* "Generate unique IDs": a fresh generator's first id, and a random UUID
CreateVehicleIDs(p) ==
    /\ pc[p] = "CreateVehicle:ids"
    /\ Goto(p, "CreateVehicle:insert",
            [loc[p] EXCEPT
                !.internalID = SnowflakeNext(now),
                !.externalID =
                    NewV4(ExternalIDs(vehicles)
                          \cup {loc[q].externalID : q \in Procs \ {p}})])
    /\ UNCHANGED <<vehicles, nops>>
    /\ ConcFrame

\* "Create vehicle in store": store.CreateVehicle
CreateVehicleInsert(p) ==
    /\ pc[p] = "CreateVehicle:insert"
    /\ LET created == StoreCreateVehicle(vehicles, loc[p].internalID, loc[p].externalID,
                                         loc[p].req, now)
       IN IF created.err = "ErrDuplicateEntry"
          THEN Return(p, "AlreadyExists") /\ UNCHANGED vehicles
          ELSE vehicles' = created.tbl /\ Goto(p, "CreateVehicle:read", loc[p])
    /\ UNCHANGED nops
    /\ ConcFrame

\* "Retrieve the created vehicle": store.GetVehicleByID
CreateVehicleRead(p) ==
    /\ pc[p] = "CreateVehicle:read"
    /\ IF StoreGetVehicleByID(vehicles, loc[p].externalID).err # "nil"
       THEN Return(p, "Internal")
       ELSE Return(p, "OK")
    /\ UNCHANGED <<vehicles, nops>>
    /\ ConcFrame

\* service.UpdateVehicleStatus up to the write: validation, the read of the
\* current vehicle and the transition check against what was read
UpdateVehicleStatusBegin(p) ==
    /\ Begin(p)
    /\ \E id \in UUIDs, status \in VehicleStatuses :
          LET req == [vehicle_id |-> id, status |-> status]
              l == [NoLoc EXCEPT !.op = "UpdateVehicleStatus", !.req = req]
              parsed == UUIDFromString(id)
              current == StoreGetVehicleByID(vehicles, parsed.id)
              code == IF id = EmptyStr \/ ValidateVehicleStatus(status) # "nil" \/ parsed.err
                      THEN "InvalidArgument"
                      ELSE IF current.err # "nil" THEN "NotFound"
                      ELSE IF ~IsValidStatusTransition(current.vehicle.status, status)
                      THEN "InvalidArgument"
                      ELSE "none"
          IN IF code # "none"
             THEN /\ pc' = pc
                  /\ loc' = [loc EXCEPT ![p] = [l EXCEPT !.code = code]]
                  /\ last' = [op |-> l.op, req |-> req, code |-> code, proc |-> p]
             ELSE Goto(p, "UpdateVehicleStatus:write", l)
    /\ UNCHANGED vehicles
    /\ ConcFrame

\* "Update status": store.UpdateVehicleStatus, whose UPDATE names no status
UpdateVehicleStatusWrite(p) ==
    /\ pc[p] = "UpdateVehicleStatus:write"
    /\ LET updated == StoreUpdateVehicleStatus(vehicles, loc[p].req.vehicle_id,
                                               loc[p].req.status, now)
       IN IF updated.err # "nil"
          THEN Return(p, "NotFound") /\ UNCHANGED vehicles
          ELSE vehicles' = updated.tbl /\ Return(p, "OK")
    /\ UNCHANGED nops
    /\ ConcFrame

\* service.DeleteVehicle up to the write: the read of the vehicle and the
\* business rule on what was read
DeleteVehicleBegin(p) ==
    /\ Begin(p)
    /\ \E id \in UUIDs :
          LET req == [vehicle_id |-> id]
              l == [NoLoc EXCEPT !.op = "DeleteVehicle", !.req = req]
              parsed == UUIDFromString(id)
              existing == StoreGetVehicleByID(vehicles, parsed.id)
              code == IF id = EmptyStr \/ parsed.err THEN "InvalidArgument"
                      ELSE IF existing.err # "nil" THEN "NotFound"
                      ELSE IF existing.vehicle.status = "ASSIGNED"
                      THEN "FailedPrecondition"
                      ELSE "none"
          IN IF code # "none"
             THEN /\ pc' = pc
                  /\ loc' = [loc EXCEPT ![p] = [l EXCEPT !.code = code]]
                  /\ last' = [op |-> l.op, req |-> req, code |-> code, proc |-> p]
             ELSE Goto(p, "DeleteVehicle:write", l)
    /\ UNCHANGED vehicles
    /\ ConcFrame

\* "Soft delete by setting status to RETIRED": store.DeleteVehicle
DeleteVehicleWrite(p) ==
    /\ pc[p] = "DeleteVehicle:write"
    /\ LET deleted == StoreDeleteVehicle(vehicles, loc[p].req.vehicle_id, now)
       IN IF deleted.err # "nil"
          THEN Return(p, "NotFound") /\ UNCHANGED vehicles
          ELSE vehicles' = deleted.tbl /\ Return(p, "OK")
    /\ UNCHANGED nops
    /\ ConcFrame

NextConc ==
    \/ Tick
    \/ \E p \in Procs :
          \/ CreateVehicleBegin(p) \/ CreateVehicleCheck(p) \/ CreateVehicleIDs(p)
          \/ CreateVehicleInsert(p) \/ CreateVehicleRead(p)
          \/ UpdateVehicleStatusBegin(p) \/ UpdateVehicleStatusWrite(p)
          \/ DeleteVehicleBegin(p) \/ DeleteVehicleWrite(p)

SpecConc == InitConc /\ [][NextConc]_vars

\* C3: under any interleaving of concurrent UpdateStatus and Delete requests,
\* every change of an entity's stored status from s to a different t is an
\* edge (s, t) of the transition table; a vehicle stored as RETIRED never
\* changes status again.
CE_C3_StatusChangesAreEdges ==
    [][\A old \in vehicles : \A new \in vehicles' :
          (old.external_id = new.external_id /\ old.status # new.status)
              => <<old.status, new.status>> \in VehicleEdges]_vars

\* a retired vehicle is back in another status
Reach_C3_RetiredLeft ==
    /\ last.op = "UpdateVehicleStatus" /\ last.code = "OK"
    /\ \E p \in Procs :
          /\ loc[p].op = "DeleteVehicle" /\ loc[p].code = "OK"
          /\ loc[p].req.vehicle_id = last.req.vehicle_id
    /\ \E row \in vehicles :
          row.external_id = last.req.vehicle_id /\ row.status = "ASSIGNED"

UniqueKeys ==
    \A a, b \in vehicles :
        (\/ a.internal_id = b.internal_id
         \/ a.external_id = b.external_id
         \/ a.license_plate = b.license_plate) => a = b

\* two Create requests of one license plate that both passed the uniqueness
\* check before either inserted, and have both returned
Raced(p, q) ==
    /\ p # q
    /\ pc[p] = "idle" /\ pc[q] = "idle"
    /\ loc[p].op = "CreateVehicle" /\ loc[q].op = "CreateVehicle"
    /\ loc[p].rival = q /\ loc[q].rival = p

\* C5: when two Create requests with the same unique key both pass the
\* uniqueness check, exactly one inserts a row and succeeds and the other
\* fails with AlreadyExists, never with Internal; no two stored rows share a
\* unique key.
CE_C5_CreateRace ==
    /\ UniqueKeys
    /\ \A p, q \in Procs :
          Raced(p, q) =>
              /\ {loc[p].code, loc[q].code} = {"OK", "AlreadyExists"}
              /\ \E row \in vehicles : row.license_plate = loc[p].req.license_plate

\* both racing Creates were refused and the license plate is in no row
Reach_C5_BothRefused ==
    \E p, q \in Procs :
        /\ Raced(p, q)
        /\ loc[p].code = "AlreadyExists" /\ loc[q].code = "AlreadyExists"
        /\ \A row \in vehicles : row.license_plate # loc[p].req.license_plate

(***************************************************************************)
(* Update with a field mask: vehicles                                      *)
(***************************************************************************)

\* a *fieldmaskpb.FieldMask: set is FALSE for the nil mask
NoMask == [set |-> FALSE, paths |-> <<>>]
FieldMask(paths) == [set |-> TRUE, paths |-> paths]

\* a pointer field of VehicleUpdateFields or DriverUpdateFields: nil, or the
\* address of a value (v of a nil pointer is the zero value of its type)
Nil(zero) == [ok |-> FALSE, v |-> zero]
Ptr(value) == [ok |-> TRUE, v |-> value]

\* the engine numbers of the model are 5 to 100 letters and digits, the empty
\* one excepted
ValidateEngineNumber(engineNumber) ==
    IF engineNumber = EmptyStr THEN "cannot be empty" ELSE "nil"

\* faulty variant: a path outside the switch is skipped
validateMaskedField_SkipUnknown(vehicle, path) ==
    CASE path = "vehicle_type_id" ->
            IF vehicle.vehicle_type_id # EmptyStr
            THEN ValidateVehicleTypeID(vehicle.vehicle_type_id) ELSE "nil"
      [] path = "license_plate" ->
            IF vehicle.license_plate # EmptyStr
            THEN ValidateLicensePlate(vehicle.license_plate) ELSE "nil"
      [] path = "make" ->
            IF vehicle.make # EmptyStr THEN ValidateVehicleMake(vehicle.make) ELSE "nil"
      [] path = "year" ->
            IF vehicle.year # 0 THEN ValidateVehicleYear(vehicle.year) ELSE "nil"
      [] path = "color" ->
            IF vehicle.color # EmptyStr THEN ValidateColor(vehicle.color) ELSE "nil"
      [] path = "engine_number" ->
            IF vehicle.engine_number # EmptyStr
            THEN ValidateEngineNumber(vehicle.engine_number) ELSE "nil"
      [] OTHER -> "nil"

\* one round of the loop of validateMaskedFields: a masked field is checked
\* when the payload carries it, a path outside the switch is refused (the
\* payloads of the model carry no model, seating capacity, fuel type or
\* chassis number)
validateMaskedField(vehicle, path) ==
    CASE path = "vehicle_type_id" ->
            IF vehicle.vehicle_type_id # EmptyStr
            THEN ValidateVehicleTypeID(vehicle.vehicle_type_id) ELSE "nil"
      [] path = "license_plate" ->
            IF vehicle.license_plate # EmptyStr
            THEN ValidateLicensePlate(vehicle.license_plate) ELSE "nil"
      [] path = "make" ->
            IF vehicle.make # EmptyStr THEN ValidateVehicleMake(vehicle.make) ELSE "nil"
      [] path = "year" ->
            IF vehicle.year # 0 THEN ValidateVehicleYear(vehicle.year) ELSE "nil"
      [] path = "color" ->
            IF vehicle.color # EmptyStr THEN ValidateColor(vehicle.color) ELSE "nil"
      [] path = "engine_number" ->
            IF vehicle.engine_number # EmptyStr
            THEN ValidateEngineNumber(vehicle.engine_number) ELSE "nil"
      [] path \in {"model", "seating_capacity", "fuel_type", "chassis_number"} -> "nil"
      [] OTHER -> "unsupported field path"

\* the first error over the paths of the mask in their order
RECURSIVE validateMaskedFields(_, _)
validateMaskedFields(vehicle, paths) ==
    IF paths = <<>> THEN "nil"
    ELSE IF validateMaskedField(vehicle, Head(paths)) # "nil"
    THEN validateMaskedField(vehicle, Head(paths))
    ELSE validateMaskedFields(vehicle, Tail(paths))

validateAllProvidedFields(vehicle) ==
    validateMaskedFields(vehicle, <<"vehicle_type_id", "license_plate", "make", "year",
                                    "color", "engine_number">>)

\* applied to the request with its payload normalized
ValidateUpdateVehicleRequest(req) ==
    IF req.vehicle_id = EmptyStr THEN "cannot be empty"
    ELSE IF req.update_mask.set
    THEN validateMaskedFields(req.vehicle, req.update_mask.paths)
    ELSE validateAllProvidedFields(req.vehicle)

\* faulty variant: the update flag of a column follows the payload, mask or no mask
UpdateFlag_Provided(updateMask, path, provided) == provided

\* faulty variant: without a mask every column is written
UpdateFlag_AllColumns(updateMask, path, provided) ==
    IF updateMask.set
    THEN \E i \in DOMAIN updateMask.paths : updateMask.paths[i] = path
    ELSE TRUE

\* whether UPDATE writes a column: with a mask, when a path names it; without
\* one, when the payload carries it
UpdateFlag(updateMask, path, provided) ==
    IF updateMask.set
    THEN \E i \in DOMAIN updateMask.paths : updateMask.paths[i] = path
    ELSE provided

\* the value bound for a column: the payload's when the column is written and
\* the payload carries it, else the zero value
UpdateValue(flag, ptr, zero) == IF flag /\ ptr.ok THEN ptr.v ELSE zero

\* CASE WHEN flag THEN value ELSE column END
CaseWhen(flag, value, column) == IF flag THEN value ELSE column

\* faulty variant: error 1062 of the UPDATE is returned like any other error
StoreUpdateVehicle_RawDuplicate(types, tbl, externalID, updates, updateMask, t) ==
    LET updateVehicleTypeID ==
            UpdateFlag(updateMask, "vehicle_type_id", updates.VehicleTypeID.ok)
        updateLicensePlate == UpdateFlag(updateMask, "license_plate", updates.LicensePlate.ok)
        updateMake == UpdateFlag(updateMask, "make", updates.Make.ok)
        updateYear == UpdateFlag(updateMask, "year", updates.Year.ok)
        updateColor == UpdateFlag(updateMask, "color", updates.Color.ok)
        updateEngineNumber == UpdateFlag(updateMask, "engine_number", updates.EngineNumber.ok)
        updateRegistrationDate ==
            UpdateFlag(updateMask, "registration_date", updates.RegistrationDate.ok)
        vehicleTypeID == UpdateValue(updateVehicleTypeID, updates.VehicleTypeID, EmptyStr)
        licensePlate == UpdateValue(updateLicensePlate, updates.LicensePlate, EmptyStr)
        make == UpdateValue(updateMake, updates.Make, EmptyStr)
        year == UpdateValue(updateYear, updates.Year, 0)
        color == UpdateValue(updateColor, updates.Color, EmptyStr)
        engineNumber == UpdateValue(updateEngineNumber, updates.EngineNumber, NULL)
        registrationDate ==
            UpdateValue(updateRegistrationDate, updates.RegistrationDate, NULL)
        Where(row) == row.external_id = externalID
        Set(row) ==
            [row EXCEPT
                !.vehicle_type_id = CaseWhen(updateVehicleTypeID, vehicleTypeID, @),
                !.license_plate = CaseWhen(updateLicensePlate, licensePlate, @),
                !.make = CaseWhen(updateMake, make, @),
                !.year = CaseWhen(updateYear, year, @),
                !.color = CaseWhen(updateColor, color, @),
                !.engine_number = CaseWhen(updateEngineNumber, engineNumber, @),
                !.registration_date = CaseWhen(updateRegistrationDate, registrationDate, @),
                !.updated_at = t]
        result == ExecUpdate(tbl, {row \in tbl : Where(row)}, [row \in tbl |-> Set(row)])
    IN IF \E row \in result.tbl : row.vehicle_type_id \notin types
       THEN [err |-> "failed to update vehicle", tbl |-> tbl]
       ELSE IF \E a, b \in result.tbl : a # b /\ a.license_plate = b.license_plate
       THEN [err |-> "failed to update vehicle", tbl |-> tbl]
       ELSE IF result.rowsAffected = 0
       THEN [err |-> "ErrVehicleNotFound", tbl |-> tbl]
       ELSE [err |-> "nil", tbl |-> result.tbl]

\* store.UpdateVehicle: the UPDATE, then the errors in the order the statement
\* meets them: a vehicle_type_id that is no integer or names no vehicle type,
\* a repeated license plate (1062), no row changed
StoreUpdateVehicle(types, tbl, externalID, updates, updateMask, t) ==
    LET updateVehicleTypeID ==
            UpdateFlag(updateMask, "vehicle_type_id", updates.VehicleTypeID.ok)
        updateLicensePlate == UpdateFlag(updateMask, "license_plate", updates.LicensePlate.ok)
        updateMake == UpdateFlag(updateMask, "make", updates.Make.ok)
        updateYear == UpdateFlag(updateMask, "year", updates.Year.ok)
        updateColor == UpdateFlag(updateMask, "color", updates.Color.ok)
        updateEngineNumber == UpdateFlag(updateMask, "engine_number", updates.EngineNumber.ok)
        updateRegistrationDate ==
            UpdateFlag(updateMask, "registration_date", updates.RegistrationDate.ok)
        vehicleTypeID == UpdateValue(updateVehicleTypeID, updates.VehicleTypeID, EmptyStr)
        licensePlate == UpdateValue(updateLicensePlate, updates.LicensePlate, EmptyStr)
        make == UpdateValue(updateMake, updates.Make, EmptyStr)
        year == UpdateValue(updateYear, updates.Year, 0)
        color == UpdateValue(updateColor, updates.Color, EmptyStr)
        engineNumber == UpdateValue(updateEngineNumber, updates.EngineNumber, NULL)
        registrationDate ==
            UpdateValue(updateRegistrationDate, updates.RegistrationDate, NULL)
        Where(row) == row.external_id = externalID
        Set(row) ==
            [row EXCEPT
                !.vehicle_type_id = CaseWhen(updateVehicleTypeID, vehicleTypeID, @),
                !.license_plate = CaseWhen(updateLicensePlate, licensePlate, @),
                !.make = CaseWhen(updateMake, make, @),
                !.year = CaseWhen(updateYear, year, @),
                !.color = CaseWhen(updateColor, color, @),
                !.engine_number = CaseWhen(updateEngineNumber, engineNumber, @),
                !.registration_date = CaseWhen(updateRegistrationDate, registrationDate, @),
                !.updated_at = t]
        result == ExecUpdate(tbl, {row \in tbl : Where(row)}, [row \in tbl |-> Set(row)])
    IN IF \E row \in result.tbl : row.vehicle_type_id \notin types
       THEN [err |-> "failed to update vehicle", tbl |-> tbl]
       ELSE IF \E a, b \in result.tbl : a # b /\ a.license_plate = b.license_plate
       THEN [err |-> "ErrDuplicateEntry", tbl |-> tbl]
       ELSE IF result.rowsAffected = 0
       THEN [err |-> "ErrVehicleNotFound", tbl |-> tbl]
       ELSE [err |-> "nil", tbl |-> result.tbl]

\* faulty variant: the license plate is looked up before the vehicle is
ServiceUpdateVehicle_PlateCheckFirst(types, tbl, request, t) ==
    LET req == [request EXCEPT !.vehicle = NormalizeVehicleFields(@)]
        vehicle == req.vehicle
        parsed == UUIDFromString(req.vehicle_id)
        existing == StoreGetVehicleByID(tbl, parsed.id)
        byPlate == StoreGetVehicleByLicensePlate(tbl, vehicle.license_plate)
        updates ==
            [VehicleTypeID |-> IF vehicle.vehicle_type_id # EmptyStr
                               THEN Ptr(vehicle.vehicle_type_id) ELSE Nil(EmptyStr),
             LicensePlate |-> IF vehicle.license_plate # EmptyStr
                              THEN Ptr(vehicle.license_plate) ELSE Nil(EmptyStr),
             Make |-> IF vehicle.make # EmptyStr THEN Ptr(vehicle.make) ELSE Nil(EmptyStr),
             Year |-> IF vehicle.year # 0 THEN Ptr(vehicle.year) ELSE Nil(0),
             Color |-> IF vehicle.color # EmptyStr THEN Ptr(vehicle.color) ELSE Nil(EmptyStr),
             EngineNumber |-> IF vehicle.engine_number # EmptyStr
                              THEN Ptr(vehicle.engine_number) ELSE Nil(EmptyStr),
             RegistrationDate |-> Nil(EmptyStr)]
        updated == StoreUpdateVehicle(types, tbl, parsed.id, updates, req.update_mask, t)
    IN IF ValidateUpdateVehicleRequest(req) # "nil"
       THEN [code |-> "InvalidArgument", tbl |-> tbl]
       ELSE IF parsed.err
       THEN [code |-> "InvalidArgument", tbl |-> tbl]
       ELSE IF /\ vehicle.license_plate # EmptyStr
               /\ byPlate.err = "nil"
               /\ byPlate.vehicle.external_id # parsed.id
       THEN [code |-> "AlreadyExists", tbl |-> tbl]
       ELSE IF existing.err # "nil"
       THEN [code |-> "NotFound", tbl |-> tbl]
       ELSE IF /\ vehicle.vehicle_type_id # EmptyStr
               /\ StoreGetVehicleTypeByID(types, vehicle.vehicle_type_id) # "nil"
       THEN [code |-> "InvalidArgument", tbl |-> tbl]
       ELSE IF updated.err = "ErrVehicleNotFound"
       THEN [code |-> "NotFound", tbl |-> tbl]
       ELSE IF updated.err = "ErrDuplicateEntry"
       THEN [code |-> "AlreadyExists", tbl |-> tbl]
       ELSE IF updated.err # "nil"
       THEN [code |-> "Internal", tbl |-> tbl]
       ELSE [code |-> "OK", tbl |-> updated.tbl]

\* service.UpdateVehicle; the requests of the model carry no registration date
ServiceUpdateVehicle(types, tbl, request, t) ==
    LET req == [request EXCEPT !.vehicle = NormalizeVehicleFields(@)]
        vehicle == req.vehicle
        parsed == UUIDFromString(req.vehicle_id)
        existing == StoreGetVehicleByID(tbl, parsed.id)
        byPlate == StoreGetVehicleByLicensePlate(tbl, vehicle.license_plate)
        updates ==
            [VehicleTypeID |-> IF vehicle.vehicle_type_id # EmptyStr
                               THEN Ptr(vehicle.vehicle_type_id) ELSE Nil(EmptyStr),
             LicensePlate |-> IF vehicle.license_plate # EmptyStr
                              THEN Ptr(vehicle.license_plate) ELSE Nil(EmptyStr),
             Make |-> IF vehicle.make # EmptyStr THEN Ptr(vehicle.make) ELSE Nil(EmptyStr),
             Year |-> IF vehicle.year # 0 THEN Ptr(vehicle.year) ELSE Nil(0),
             Color |-> IF vehicle.color # EmptyStr THEN Ptr(vehicle.color) ELSE Nil(EmptyStr),
             EngineNumber |-> IF vehicle.engine_number # EmptyStr
                              THEN Ptr(vehicle.engine_number) ELSE Nil(EmptyStr),
             RegistrationDate |-> Nil(EmptyStr)]
        updated == StoreUpdateVehicle(types, tbl, parsed.id, updates, req.update_mask, t)
    IN IF ValidateUpdateVehicleRequest(req) # "nil"
       THEN [code |-> "InvalidArgument", tbl |-> tbl]
       ELSE IF parsed.err
       THEN [code |-> "InvalidArgument", tbl |-> tbl]
       ELSE IF existing.err # "nil"
       THEN [code |-> "NotFound", tbl |-> tbl]
       ELSE IF /\ vehicle.vehicle_type_id # EmptyStr
               /\ StoreGetVehicleTypeByID(types, vehicle.vehicle_type_id) # "nil"
       THEN [code |-> "InvalidArgument", tbl |-> tbl]
       ELSE IF /\ vehicle.license_plate # EmptyStr
               /\ vehicle.license_plate # existing.vehicle.license_plate
               /\ byPlate.err = "nil"
               /\ byPlate.vehicle.external_id # existing.vehicle.external_id
       THEN [code |-> "AlreadyExists", tbl |-> tbl]
       ELSE IF updated.err = "ErrVehicleNotFound"
       THEN [code |-> "NotFound", tbl |-> tbl]
       ELSE IF updated.err = "ErrDuplicateEntry"
       THEN [code |-> "AlreadyExists", tbl |-> tbl]
       ELSE IF updated.err # "nil"
       THEN [code |-> "Internal", tbl |-> tbl]
       ELSE [code |-> "OK", tbl |-> updated.tbl]

(***************************************************************************)
(* Update with a field mask: drivers                                       *)
(***************************************************************************)

ValidateExperienceYears(years) ==
    IF years < 0 THEN "cannot be negative"
    ELSE IF years > 60 THEN "cannot exceed 60 years"
    ELSE "nil"

\* a day is TicksPerDay ticks of the clock and a year 365 days
ValidateLicenseExpiry(expiry, t) ==
    IF expiry < t - 365 * TicksPerDay THEN "license expired more than 1 year ago"
    ELSE IF expiry > t + 3650 * TicksPerDay
    THEN "license expiry cannot be more than 10 years in the future"
    ELSE "nil"

\* one round of the loop of validateMaskedDriverFields (the payloads of the
\* model carry no license class, phone number, emergency contact or hire date)
validateMaskedDriverField(driver, path, t) ==
    CASE path = "user_id" ->
            IF driver.user_id # EmptyStr THEN ValidateUserID(driver.user_id) ELSE "nil"
      [] path = "license_number" ->
            IF driver.license_number # EmptyStr
            THEN ValidateKenyanLicense(driver.license_number) ELSE "nil"
      [] path = "license_expiry" ->
            IF driver.license_expiry # NullTime
            THEN ValidateLicenseExpiry(driver.license_expiry, t) ELSE "nil"
      [] path = "experience_years" -> ValidateExperienceYears(driver.experience_years)
      [] path \in {"license_class", "phone_number", "emergency_contact_name",
                   "emergency_contact_phone", "hire_date"} -> "nil"
      [] OTHER -> "unsupported field path"

RECURSIVE validateMaskedDriverFields(_, _, _)
validateMaskedDriverFields(driver, paths, t) ==
    IF paths = <<>> THEN "nil"
    ELSE IF validateMaskedDriverField(driver, Head(paths), t) # "nil"
    THEN validateMaskedDriverField(driver, Head(paths), t)
    ELSE validateMaskedDriverFields(driver, Tail(paths), t)

validateAllProvidedDriverFields(driver, t) ==
    validateMaskedDriverFields(driver, <<"user_id", "license_number", "license_expiry",
                                         "experience_years">>, t)

\* applied to the request with its payload normalized
ValidateUpdateDriverRequest(req, t) ==
    IF req.driver_id = EmptyStr THEN "cannot be empty"
    ELSE IF req.update_mask.set
    THEN validateMaskedDriverFields(req.driver, req.update_mask.paths, t)
    ELSE validateAllProvidedDriverFields(req.driver, t)

\* store.UpdateDriver: the UPDATE, then the errors in the order the statement
\* meets them: NULL for the NOT NULL license_expiry, a repeated user id or
\* license number (1062), no row changed
StoreUpdateDriver(tbl, externalID, updates, updateMask, t) ==
    LET updateUserID == UpdateFlag(updateMask, "user_id", updates.UserID.ok)
        updateLicenseNumber ==
            UpdateFlag(updateMask, "license_number", updates.LicenseNumber.ok)
        updateLicenseExpiry ==
            UpdateFlag(updateMask, "license_expiry", updates.LicenseExpiry.ok)
        updateExperienceYears ==
            UpdateFlag(updateMask, "experience_years", updates.ExperienceYears.ok)
        userID == UpdateValue(updateUserID, updates.UserID, EmptyStr)
        licenseNumber == UpdateValue(updateLicenseNumber, updates.LicenseNumber, EmptyStr)
        licenseExpiry ==
            IF updateLicenseExpiry /\ updates.LicenseExpiry.ok
            THEN FormatDate(ParseDate(updates.LicenseExpiry.v))
            ELSE NullTime
        experienceYears == UpdateValue(updateExperienceYears, updates.ExperienceYears, 0)
        Where(row) == row.external_id = externalID
        Set(row) ==
            [row EXCEPT
                !.user_id = CaseWhen(updateUserID, userID, @),
                !.license_number = CaseWhen(updateLicenseNumber, licenseNumber, @),
                !.license_expiry = CaseWhen(updateLicenseExpiry, licenseExpiry, @),
                !.experience_years = CaseWhen(updateExperienceYears, experienceYears, @),
                !.updated_at = t]
        result == ExecUpdate(tbl, {row \in tbl : Where(row)}, [row \in tbl |-> Set(row)])
    IN IF \E row \in result.tbl : row.license_expiry = NullTime
       THEN [err |-> "failed to update driver", tbl |-> tbl]
       ELSE IF \E a, b \in result.tbl :
                  /\ a # b
                  /\ (a.user_id = b.user_id \/ a.license_number = b.license_number)
       THEN [err |-> "ErrDuplicateEntry", tbl |-> tbl]
       ELSE IF result.rowsAffected = 0
       THEN [err |-> "ErrDriverNotFound", tbl |-> tbl]
       ELSE [err |-> "nil", tbl |-> result.tbl]

\* service.UpdateDriver
ServiceUpdateDriver(tbl, request, t) ==
    LET req == [request EXCEPT !.driver = NormalizeDriverFields(@)]
        driver == req.driver
        parsed == UUIDFromString(req.driver_id)
        existing == StoreGetDriverByID(tbl, parsed.id, t)
        byLicense == StoreGetDriverByLicenseNumber(tbl, driver.license_number, t)
        byUser == StoreGetDriverByUserID(tbl, driver.user_id, t)
        updates ==
            [UserID |-> IF driver.user_id # EmptyStr
                        THEN Ptr(driver.user_id) ELSE Nil(EmptyStr),
             LicenseNumber |-> IF driver.license_number # EmptyStr
                               THEN Ptr(driver.license_number) ELSE Nil(EmptyStr),
             LicenseExpiry |-> IF driver.license_expiry # NullTime
                               THEN Ptr(FormatDate(driver.license_expiry)) ELSE Nil(0),
             ExperienceYears |-> IF driver.experience_years # 0
                                 THEN Ptr(driver.experience_years) ELSE Nil(0)]
        updated == StoreUpdateDriver(tbl, parsed.id, updates, req.update_mask, t)
    IN IF ValidateUpdateDriverRequest(req, t) # "nil"
       THEN [code |-> "InvalidArgument", tbl |-> tbl]
       ELSE IF parsed.err
       THEN [code |-> "InvalidArgument", tbl |-> tbl]
       ELSE IF existing.err # "nil"
       THEN [code |-> "NotFound", tbl |-> tbl]
       ELSE IF /\ driver.license_number # EmptyStr
               /\ driver.license_number # existing.driver.license_number
               /\ byLicense.err = "nil"
               /\ byLicense.driver.external_id # existing.driver.external_id
       THEN [code |-> "AlreadyExists", tbl |-> tbl]
       ELSE IF /\ driver.user_id # EmptyStr
               /\ driver.user_id # existing.driver.user_id
               /\ byUser.err = "nil"
               /\ byUser.driver.external_id # existing.driver.external_id
       THEN [code |-> "AlreadyExists", tbl |-> tbl]
       ELSE IF updated.err = "ErrDriverNotFound"
       THEN [code |-> "NotFound", tbl |-> tbl]
       ELSE IF updated.err = "ErrDuplicateEntry"
       THEN [code |-> "AlreadyExists", tbl |-> tbl]
       ELSE IF updated.err # "nil"
       THEN [code |-> "Internal", tbl |-> tbl]
       ELSE [code |-> "OK", tbl |-> updated.tbl]


(***************************************************************************)
(* SpecUpdate: Update requests on tables of two vehicles and two drivers   *)
(***************************************************************************)

MaxUpdates == 1    \* Update requests handled in one behaviour

UpdateVehicleTypes == {"1", "2"}

\* two vehicles made by CreateVehicle at ticks 0 and 1, the first then taken to
\* a status by UpdateVehicleStatus
SeedVehicles(status) ==
    LET first == [vehicle_type_id |-> "1", license_plate |-> "KAA 001A", make |-> "Toyota",
                  year |-> 2018, color |-> "Blue", engine_number |-> EmptyStr]
        second == [first EXCEPT !.license_plate = "KBB 002B", !.engine_number = "ENG54321"]
        one == ServiceCreateVehicle(UpdateVehicleTypes, {}, first, 0).tbl
        two == ServiceCreateVehicle(UpdateVehicleTypes, one, second, 1).tbl
    IN IF status = "ACTIVE" THEN two
       ELSE ServiceUpdateVehicleStatus(two, [vehicle_id |-> UUIDOf(1), status |-> status],
                                       1).tbl

\* two drivers made by CreateDriver at ticks 0 and 1
SeedDrivers ==
    ServiceCreateDriver({SeedDriver},
                        [user_id |-> "user-2", license_number |-> "DL7654321",
                         license_expiry |-> 1 + TicksPerDay, experience_years |-> 5],
                        1).tbl

InitUpdate ==
    /\ now = 1
    /\ vehicleTypes = UpdateVehicleTypes
    /\ vehicles \in {SeedVehicles(status) : status \in {"ACTIVE", "ASSIGNED"}}
    /\ drivers = SeedDrivers
    /\ certs = {}
    /\ pc = <<>> /\ loc = <<>>
    /\ last = NoOp
    /\ nops = 0
    /\ IdleFSM /\ IdleList
    /\ IdleBoot

\* no mask, the empty mask, masks of columns and a mask of a path that names
\* no updatable column
VehicleMaskInputs ==
    {NoMask} \cup
    {FieldMask(paths) : paths \in {<<>>, <<"color">>, <<"make", "year">>,
                                   <<"license_plate">>, <<"vehicle_type_id">>,
                                   <<"status">>, <<"color", "status">>,
                                   <<"registration_date">>}}

DriverMaskInputs ==
    {NoMask} \cup
    {FieldMask(paths) : paths \in {<<>>, <<"experience_years">>, <<"user_id">>,
                                   <<"license_number">>, <<"license_expiry">>,
                                   <<"status">>, <<"experience_years", "status">>}}

\* the ids of the two stored rows, a UUID that no row holds, and texts that
\* are no UUID
UpdateIDInputs == {EmptyStr, "not-a-uuid", UUIDOf(1), UUIDOf(2), UUIDOf(3)}

UpdateVehicleInputs ==
    {[vehicle_type_id |-> x[1], license_plate |-> x[2], make |-> x[3][1],
      year |-> x[3][2], color |-> x[3][3], engine_number |-> EmptyStr] :
        x \in ({EmptyStr} \X {EmptyStr, "KBB 002B", "KCC 003C"}
                  \X {<<EmptyStr, 0, EmptyStr>>, <<"Honda", 0, EmptyStr>>,
                      <<EmptyStr, 0, "White">>, <<"Honda", 2020, "White">>})
              \cup ({"2"} \X {EmptyStr, "KBB 002B", "KCC 003C"}
                        \X {<<EmptyStr, 0, EmptyStr>>, <<"Honda", 2020, "White">>})}

UpdateDriverInputs ==
    {[user_id |-> x[1][1], license_number |-> x[1][2], license_expiry |-> x[2][1],
      experience_years |-> x[2][2]] :
        x \in {<<EmptyStr, EmptyStr>>, <<"user-2", EmptyStr>>, <<"user-3", EmptyStr>>,
               <<EmptyStr, "DL7654321">>, <<EmptyStr, "DL1112223">>,
               <<"user-3", "DL1112223">>}
              \X {<<NullTime, 0>>, <<now + TicksPerDay, 7>>, <<NullTime, 61>>}}

UpdateStarted ==
    /\ nops < MaxUpdates
    /\ nops' = nops + 1
    /\ UNCHANGED <<now, vehicleTypes, certs, pc, loc, fsmVars, listVars, bootVars>>

UpdateVehicle ==
    /\ UpdateStarted
    /\ \E id \in UpdateIDInputs, vehicle \in UpdateVehicleInputs, mask \in VehicleMaskInputs :
          LET req == [vehicle_id |-> id, vehicle |-> vehicle, update_mask |-> mask]
              r == ServiceUpdateVehicle(vehicleTypes, vehicles, req, now)
          IN vehicles' = r.tbl /\ Done("UpdateVehicle", req, r.code)
    /\ UNCHANGED drivers

UpdateDriver ==
    /\ UpdateStarted
    /\ \E id \in UpdateIDInputs, driver \in UpdateDriverInputs, mask \in DriverMaskInputs :
          LET req == [driver_id |-> id, driver |-> driver, update_mask |-> mask]
              r == ServiceUpdateDriver(drivers, req, now)
          IN drivers' = r.tbl /\ Done("UpdateDriver", req, r.code)
    /\ UNCHANGED vehicles

\* UpdateVehicleStatus and UpdateDriverStatus on the same tables and ids
UpdateVehicleStatusByID ==
    /\ UpdateStarted
    /\ \E id \in UpdateIDInputs, status \in VehicleStatuses :
          LET req == [vehicle_id |-> id, status |-> status]
              r == ServiceUpdateVehicleStatus(vehicles, req, now)
          IN vehicles' = r.tbl /\ Done("UpdateVehicleStatus", req, r.code)
    /\ UNCHANGED drivers

UpdateDriverStatusByID ==
    /\ UpdateStarted
    /\ \E id \in UpdateIDInputs, status \in DriverStatuses :
          LET req == [driver_id |-> id, status |-> status]
              r == ServiceUpdateDriverStatus(drivers, req, now)
          IN drivers' = r.tbl /\ Done("UpdateDriverStatus", req, r.code)
    /\ UNCHANGED vehicles

NextUpdate ==
    UpdateVehicle \/ UpdateDriver \/ UpdateVehicleStatusByID \/ UpdateDriverStatusByID

SpecUpdate == InitUpdate /\ [][NextUpdate]_vars

\* a successful Update with an explicit mask was the last request
MaskedUpdate ==
    /\ last.op \in {"UpdateVehicle", "UpdateDriver"}
    /\ last.code = "OK"
    /\ last.req.update_mask.set

MaskedPaths == {last.req.update_mask.paths[i] : i \in DOMAIN last.req.update_mask.paths}

\* the row old as the tables now hold it differs from old in no column outside
\* keep
SameOutside(tbl, old, changeable) ==
    \E new \in tbl :
        /\ new.external_id = old.external_id
        /\ \A column \in (DOMAIN old) \ changeable : new[column] = old[column]

\* C4: a successful Update with an explicit field mask M changes only the
\* columns named in M and updated_at of the target row: every other column,
\* status, created_at and the identifiers included, keeps its value whatever
\* the payload carries, and no other row of any table changes.
Thm_C4_MaskIsolation ==
    MaskedUpdate =>
        /\ \A old \in last.before.vehicles :
              IF last.op = "UpdateVehicle" /\ old.external_id = last.req.vehicle_id
              THEN SameOutside(vehicles, old, MaskedPaths \cup {"updated_at"})
              ELSE old \in vehicles
        /\ \A old \in last.before.drivers :
              IF last.op = "UpdateDriver" /\ old.external_id = last.req.driver_id
              THEN SameOutside(drivers, old, MaskedPaths \cup {"updated_at"})
              ELSE old \in drivers
        /\ Cardinality(vehicles) = Cardinality(last.before.vehicles)
        /\ Cardinality(drivers) = Cardinality(last.before.drivers)
        /\ certs = last.before.certs

\* mask ["color"] with color White and an unrelated make in the payload has
\* changed the color of the target row and left its make
Wit_C4_MaskIsolation ==
    /\ MaskedUpdate
    /\ last.op = "UpdateVehicle"
    /\ last.req.update_mask.paths = <<"color">>
    /\ last.req.vehicle.color = "White"
    /\ last.req.vehicle.make = "Honda"
    /\ \E old \in last.before.vehicles, new \in vehicles :
          /\ old.external_id = last.req.vehicle_id
          /\ new.external_id = last.req.vehicle_id
          /\ old.color = "Blue" /\ new.color = "White"
          /\ old.make = "Toyota" /\ new.make = "Toyota"
          /\ new.updated_at # old.updated_at

(***************************************************************************)
(* SpecStatus: status requests on one driver in each status, with a        *)
(* license that expires today or tomorrow                                  *)
(***************************************************************************)

\* a driver made at tick 0 by CreateDriver with a license expiring at expiry,
\* then taken to a status by UpdateDriverStatus or DeleteDriver at tick 0
StatusDriver(status, expiry) ==
    LET made == ServiceCreateDriver({}, [user_id |-> "user-1", license_number |-> "DL1234567",
                                         license_expiry |-> expiry, experience_years |-> 5],
                                    0).tbl
        To(tbl, st) == ServiceUpdateDriverStatus(tbl, [driver_id |-> UUIDOf(1), status |-> st],
                                                 0).tbl
    IN CASE status = "PENDING_VERIFICATION" -> made
         [] status = "ACTIVE" -> To(made, "ACTIVE")
         [] status = "SUSPENDED" -> To(To(made, "ACTIVE"), "SUSPENDED")
         [] status = "INACTIVE" -> ServiceDeleteDriver(made, [driver_id |-> UUIDOf(1)], 0).tbl

InitStatus ==
    /\ now = 0
    /\ vehicleTypes = {"1"}
    /\ vehicles = {} /\ certs = {}
    /\ drivers \in {StatusDriver(status, expiry) :
                       status \in {"PENDING_VERIFICATION", "ACTIVE", "SUSPENDED", "INACTIVE"},
                       expiry \in {0, TicksPerDay}}
    /\ pc = <<>> /\ loc = <<>>
    /\ last = NoOp
    /\ nops = 0
    /\ IdleFSM /\ IdleList
    /\ IdleBoot

NextStatus == Tick \/ UpdateDriverStatus \/ DeleteDriver

SpecStatus == InitStatus /\ [][NextStatus]_vars

\* the last request was an UpdateDriverStatus to ACTIVE on a stored driver
\* whose license had expired when the request was handled
ActivationOfExpired ==
    /\ last.op = "UpdateDriverStatus"
    /\ last.req.status = "ACTIVE"
    /\ HasRow(last.before.drivers, last.req.driver_id)
    /\ ParseDate(RowOf(last.before.drivers, last.req.driver_id).license_expiry) < last.at

\* C11: the business guard is evaluated in addition to the edge check:
\* UpdateDriverStatus to ACTIVE on a driver whose license is expired fails with
\* FailedPrecondition when (from, ACTIVE) is an edge and with InvalidArgument
\* when it is not, the driver unchanged in both cases; and no UpdateDriverStatus
\* succeeds on a pair that is not an edge.
Thm_C11_GuardAfterEdgeCheck ==
    /\ ActivationOfExpired =>
          LET from == RowOf(last.before.drivers, last.req.driver_id).status
          IN /\ drivers = last.before.drivers
             /\ last.code = IF <<from, "ACTIVE">> \in DriverEdges
                            THEN "FailedPrecondition" ELSE "InvalidArgument"
    /\ (last.op = "UpdateDriverStatus" /\ last.code = "OK") =>
          <<RowOf(last.before.drivers, last.req.driver_id).status, last.req.status>>
              \in DriverEdges

\* a suspended driver whose license has expired was refused activation with
\* FailedPrecondition and kept its status
Wit_C11_GuardAfterEdgeCheck ==
    /\ ActivationOfExpired
    /\ last.code = "FailedPrecondition"
    /\ RowOf(last.before.drivers, last.req.driver_id).status = "SUSPENDED"
    /\ drivers = last.before.drivers

(***************************************************************************)
(* Identifier allocation under SpecConc                                    *)
(***************************************************************************)

\* process p has passed "Generate unique IDs" of the CreateVehicle it is running
Allocated(p) == pc[p] \in {"CreateVehicle:insert", "CreateVehicle:read"}

\* C12: the internal_id values allocated by concurrent Create calls of one
\* process are pairwise distinct, also when two calls allocate within one
\* clock tick.
CE_C12_DistinctInternalIDs ==
    \A p, q \in Procs :
        (p # q /\ Allocated(p) /\ Allocated(q)) => loc[p].internalID # loc[q].internalID

\* two CreateVehicle calls for different license plates hold the same
\* allocated internal_id, neither having inserted yet
Reach_C12_SameTickSameID ==
    \E p, q \in Procs :
        /\ p # q
        /\ pc[p] = "CreateVehicle:insert" /\ pc[q] = "CreateVehicle:insert"
        /\ loc[p].req.license_plate # loc[q].req.license_plate
        /\ loc[p].internalID = loc[q].internalID

(***************************************************************************)
(* Status requests after a soft delete, under SpecSeq                      *)
(***************************************************************************)

\* an UpdateStatus request directly after a Delete that succeeded on the same
\* entity
UpdateStatusAfterDelete ==
    /\ last.op \in {"DeleteVehicle", "DeleteDriver"}
    /\ last.code = "OK"
    /\ nops' = nops + 1
    /\ \/ /\ last.op = "DeleteVehicle" /\ last'.op = "UpdateVehicleStatus"
          /\ last'.req.vehicle_id = last.req.vehicle_id
       \/ /\ last.op = "DeleteDriver" /\ last'.op = "UpdateDriverStatus"
          /\ last'.req.driver_id = last.req.driver_id

\* C13: the soft-delete status is terminal: once Delete has succeeded on a
\* vehicle or a driver, no UpdateStatus request on that entity succeeds.
CE_C13_DeletedIsTerminal ==
    [][UpdateStatusAfterDelete => last'.code # "OK"]_vars

\* a driver that DeleteDriver had made INACTIVE was activated again by
\* UpdateDriverStatus
Reach_C13_DeletedDriverActivated ==
    /\ last.op = "UpdateDriverStatus" /\ last.code = "OK"
    /\ last.req.status = "ACTIVE"
    /\ HasRow(last.before.drivers, last.req.driver_id)
    /\ RowOf(last.before.drivers, last.req.driver_id).status = "INACTIVE"
    /\ RowOf(drivers, last.req.driver_id).status = "ACTIVE"

(***************************************************************************)
(* SpecListReq: ListVehicles requests with any page size and any page     *)
(* token, well formed or not                                               *)
(***************************************************************************)

\* page tokens a client may send: none, text that is not base64, base64 of
\* text that is no timestamp, and tokens of timestamps
PageTokenInputs ==
    {EmptyToken, <<"raw", "@@@">>, Base64Encode(<<"text", "yesterday">>)}
        \cup {EncodePageToken(t) : t \in 1..MaxListTime}

\* a non-empty token that base64 decoding or Time.UnmarshalText rejects
MalformedToken(tok) ==
    /\ tok # EmptyToken
    /\ Base64Decode(tok).err \/ UnmarshalText(Base64Decode(tok).text).err

PageSizeRequests == {-1, MaxPageSize} \cup PageSizeInputs

InitListReq ==
    /\ vehicles \in {tbl \in ListTables : \A row \in tbl : row.status = "ACTIVE"}
    /\ now = MaxListTime
    /\ vehicleTypes = {"1"}
    /\ drivers = {} /\ certs = {}
    /\ pc = <<>> /\ loc = <<>> /\ last = NoOp /\ nops = 0
    /\ listReq \in [page_size : PageSizeRequests, page_token : PageTokenInputs,
                    status_filter : {NoFilter},
                    vehicle_type_filter : {NoFilter}, make_filter : {NoFilter}]
    /\ listOut = [returned |-> <<>>, calls |-> 0, lastCall |-> ListError("none"),
                  done |-> FALSE]
    /\ IdleFSM
    /\ IdleBoot

SpecListReq == InitListReq /\ [][NextList]_vars

\* C14: a ListVehicles call with a non-empty page token that fails base64
\* decoding, or that decodes to text which is no RFC3339 timestamp, fails with
\* InvalidArgument and returns no rows.
CE_C14_MalformedTokenInvalidArgument ==
    [][(MalformedToken(listReq.page_token) /\ listOut'.calls = listOut.calls + 1) =>
          /\ listOut'.lastCall.err = "InvalidArgument"
          /\ listOut'.lastCall.vehicles = <<>>]_vars

\* the first call of a client failed with Internal over a table that holds
\* rows, and returned none of them
Reach_C14_MalformedTokenInternal ==
    /\ listOut.calls = 1
    /\ listOut.lastCall.err = "Internal"
    /\ listOut.lastCall.vehicles = <<>>
    /\ vehicles # {}

(***************************************************************************)
(* Page sizes under SpecListReq                                            *)
(***************************************************************************)

\* the first call of the client has returned; the request still holds the
\* page size it was made with
FirstCallDone == listOut.calls = 1

\* C15: page-size clamping: for every requested page_size the page size the
\* query works with (it fetches one row more, to tell whether a next page
\* exists) is 50 when the request is unset or <= 0, 100 when it is above 100
\* and the requested value otherwise; no page_size is rejected, the only
\* failure being a malformed page token; a returned page never holds more
\* rows than that page size.
Thm_C15_PageSizeClamping ==
    FirstCallDone =>
        LET r == listOut.lastCall
            size == IF listReq.page_size <= 0 THEN DefaultPageSize
                    ELSE IF listReq.page_size > MaxPageSize THEN MaxPageSize
                    ELSE listReq.page_size
        IN /\ r.err \in {"OK", "Internal"}
           /\ r.err = "OK" => /\ r.limit = size + 1
                              /\ Len(r.fetched) <= r.limit
                              /\ Len(r.vehicles) <= size
           /\ r.err = "Internal" => r.vehicles = <<>>

\* a request for pages of two rows over a table of three got a page of exactly
\* two rows and a token for the rest
Wit_C15_PageSizeClamping ==
    /\ FirstCallDone
    /\ listReq.page_size = 2
    /\ Cardinality(vehicles) = 3
    /\ Len(listOut.lastCall.vehicles) = 2
    /\ Len(listOut.lastCall.fetched) = 3
    /\ listOut.lastCall.nextPageToken # EmptyToken

(***************************************************************************)
(* Masked fields with empty values, under SpecUpdate                       *)
(***************************************************************************)

\* the last request was an Update with an explicit mask on a stored row, which
\* was not refused as invalid or as a duplicate
MaskedUpdateHandled ==
    /\ last.op \in {"UpdateVehicle", "UpdateDriver"}
    /\ last.req.update_mask.set
    /\ last.code \notin {"InvalidArgument", "AlreadyExists"}
    /\ IF last.op = "UpdateVehicle"
       THEN HasRow(last.before.vehicles, last.req.vehicle_id)
       ELSE HasRow(last.before.drivers, last.req.driver_id)

\* the column values a payload stands for: texts normalised, an empty
\* engine number and an absent license expiry NULL
PayloadColumns ==
    IF last.op = "UpdateVehicle"
    THEN LET v == NormalizeVehicleFields(last.req.vehicle)
         IN [v EXCEPT !.engine_number = IF @ = EmptyStr THEN NULL ELSE @]
    ELSE LET d == NormalizeDriverFields(last.req.driver)
         IN [d EXCEPT !.license_expiry = IF @ = NullTime THEN NullTime ELSE FormatDate(@)]

\* the target row as the tables hold it after the request
TargetRow ==
    IF last.op = "UpdateVehicle" THEN RowOf(vehicles, last.req.vehicle_id)
    ELSE RowOf(drivers, last.req.driver_id)

\* C16: when a field mask is supplied, every field named in it is written
\* whatever its value: a masked field whose payload value is empty or zero
\* overwrites the stored column with the empty or zero value (NULL for a
\* nullable column) instead of leaving the stored value in place.
CE_C16_MaskedFieldsWritten ==
    MaskedUpdateHandled =>
        \A path \in MaskedPaths \cap DOMAIN PayloadColumns :
            TargetRow[path] = PayloadColumns[path]

\* an UpdateVehicle with mask (vehicle_type_id) and no vehicle type in the
\* payload failed with Internal and the stored vehicle type stayed
Reach_C16_EmptyTypeNotWritten ==
    /\ MaskedUpdateHandled
    /\ last.op = "UpdateVehicle"
    /\ MaskedPaths = {"vehicle_type_id"}
    /\ last.req.vehicle.vehicle_type_id = EmptyStr
    /\ last.code = "Internal"
    /\ TargetRow.vehicle_type_id = "1"

(***************************************************************************)
(* Masks with unknown paths, under SpecUpdate                              *)
(***************************************************************************)

\* the paths the validator of an Update of the entity knows
VehicleMaskPaths ==
    {"vehicle_type_id", "license_plate", "make", "model", "year", "color",
     "seating_capacity", "fuel_type", "engine_number", "chassis_number"}

DriverMaskPaths ==
    {"user_id", "license_number", "license_class", "license_expiry", "experience_years",
     "phone_number", "emergency_contact_name", "emergency_contact_phone", "hire_date"}

\* the last request was an Update whose mask names a path the entity's
\* validator does not know
UnknownPathMasked ==
    /\ last.op \in {"UpdateVehicle", "UpdateDriver"}
    /\ last.req.update_mask.set
    /\ MaskedPaths \ (IF last.op = "UpdateVehicle" THEN VehicleMaskPaths
                      ELSE DriverMaskPaths) # {}

RequestValid ==
    CASE last.op = "UpdateVehicle" ->
            ValidateUpdateVehicleRequest(
                [last.req EXCEPT !.vehicle = NormalizeVehicleFields(@)]) = "nil"
      [] last.op = "UpdateDriver" ->
            ValidateUpdateDriverRequest(
                [last.req EXCEPT !.driver = NormalizeDriverFields(@)], last.at) = "nil"
      [] last.op = "UpdateVehicleStatus" -> ValidateVehicleStatus(last.req.status) = "nil"
      [] last.op = "UpdateDriverStatus" -> ValidateDriverStatus(last.req.status) = "nil"

\* the last request was a valid Update or UpdateStatus whose id is a UUID that
\* no row of the entity's table held
NoRowTargeted ==
    /\ last.op \in {"UpdateVehicle", "UpdateDriver", "UpdateVehicleStatus",
                    "UpdateDriverStatus"}
    /\ RequestValid
    /\ IF last.op \in {"UpdateVehicle", "UpdateVehicleStatus"}
       THEN /\ ~UUIDFromString(last.req.vehicle_id).err
            /\ ~HasRow(last.before.vehicles, last.req.vehicle_id)
       ELSE /\ ~UUIDFromString(last.req.driver_id).err
            /\ ~HasRow(last.before.drivers, last.req.driver_id)

\* C18: an Update or UpdateStatus whose target id matches no stored row fails
\* with NotFound, an error different from the AlreadyExists of a uniqueness
\* violation; the tables are unchanged after either error.
Thm_C18_NoRowIsNotFound ==
    /\ NoRowTargeted => last.code = "NotFound"
    /\ (/\ last.op \in {"UpdateVehicle", "UpdateDriver", "UpdateVehicleStatus",
                        "UpdateDriverStatus"}
        /\ last.code \in {"NotFound", "AlreadyExists"}) => Tables = last.before

\* an UpdateVehicle that names no stored vehicle and carries the license plate
\* of a stored one was answered NotFound, not AlreadyExists
Wit_C18_NoRowIsNotFound ==
    /\ NoRowTargeted
    /\ last.op = "UpdateVehicle"
    /\ last.req.vehicle.license_plate = "KBB 002B"
    /\ last.code = "NotFound"
    /\ Tables = last.before

(***************************************************************************)
(* SpecRace: goroutines run UpdateVehicle, UpdateDriver and CreateVehicle  *)
(* on tables of two vehicles and two drivers; a handler takes one step per *)
(* store call that matters to uniqueness                                   *)
(***************************************************************************)

MaxRaceOps == 2    \* requests a run of SpecRace starts

InitRace ==
    /\ now = 2
    /\ vehicleTypes = UpdateVehicleTypes
    /\ vehicles = SeedVehicles("ACTIVE")
    /\ drivers = SeedDrivers
    /\ certs = {}
    /\ pc = [p \in Procs |-> "idle"]
    /\ loc = [p \in Procs |-> NoLoc]
    /\ last = NoOp
    /\ nops = 0
    /\ IdleFSM /\ IdleList
    /\ IdleBoot

RaceBegin(p) ==
    /\ pc[p] = "idle"
    /\ nops < MaxRaceOps
    /\ nops' = nops + 1

RaceFrame == UNCHANGED <<now, vehicleTypes, certs, fsmVars, listVars, bootVars>>

\* the handler of p returns code before its first write
Refuse(p, l, code) ==
    /\ pc' = pc
    /\ loc' = [loc EXCEPT ![p] = [l EXCEPT !.code = code]]
    /\ last' = [op |-> l.op, req |-> l.req, code |-> code, proc |-> p, from |-> "check"]

\* the handler of p returns code after its write
Written(p, code) ==
    /\ pc' = [pc EXCEPT ![p] = "idle"]
    /\ loc' = [loc EXCEPT ![p].code = code]
    /\ last' = [op |-> loc[p].op, req |-> loc[p].req, code |-> code, proc |-> p,
                from |-> "write"]

\* "Prepare update fields" of service.UpdateVehicle
VehicleUpdateFields(vehicle) ==
    [VehicleTypeID |-> IF vehicle.vehicle_type_id # EmptyStr
                       THEN Ptr(vehicle.vehicle_type_id) ELSE Nil(EmptyStr),
     LicensePlate |-> IF vehicle.license_plate # EmptyStr
                      THEN Ptr(vehicle.license_plate) ELSE Nil(EmptyStr),
     Make |-> IF vehicle.make # EmptyStr THEN Ptr(vehicle.make) ELSE Nil(EmptyStr),
     Year |-> IF vehicle.year # 0 THEN Ptr(vehicle.year) ELSE Nil(0),
     Color |-> IF vehicle.color # EmptyStr THEN Ptr(vehicle.color) ELSE Nil(EmptyStr),
     EngineNumber |-> IF vehicle.engine_number # EmptyStr
                      THEN Ptr(vehicle.engine_number) ELSE Nil(EmptyStr),
     RegistrationDate |-> Nil(EmptyStr)]

\* "Prepare update fields" of service.UpdateDriver
DriverUpdateFields(driver) ==
    [UserID |-> IF driver.user_id # EmptyStr THEN Ptr(driver.user_id) ELSE Nil(EmptyStr),
     LicenseNumber |-> IF driver.license_number # EmptyStr
                       THEN Ptr(driver.license_number) ELSE Nil(EmptyStr),
     LicenseExpiry |-> IF driver.license_expiry # NullTime
                       THEN Ptr(FormatDate(driver.license_expiry)) ELSE Nil(0),
     ExperienceYears |-> IF driver.experience_years # 0
                         THEN Ptr(driver.experience_years) ELSE Nil(0)]

RaceVehicleInputs ==
    {[vehicle_type_id |-> EmptyStr, license_plate |-> plate, make |-> EmptyStr,
      year |-> 0, color |-> "White", engine_number |-> EmptyStr] :
        plate \in {"KBB 002B", "KCC 003C"}}

RaceDriverInputs ==
    {[user_id |-> x[1], license_number |-> x[2], license_expiry |-> NullTime,
      experience_years |-> 7] :
        x \in {<<"user-3", EmptyStr>>, <<"user-2", EmptyStr>>, <<EmptyStr, "DL1112223">>}}

\* service.UpdateVehicle up to "Update vehicle in store": validation, the read
\* of the vehicle and the license plate uniqueness check
UpdateVehicleBegin(p) ==
    /\ RaceBegin(p)
    /\ \E id \in {UUIDOf(1), UUIDOf(2)}, vehicle \in RaceVehicleInputs,
          mask \in {NoMask, FieldMask(<<"license_plate">>), FieldMask(<<"color">>)} :
          LET req == [vehicle_id |-> id, vehicle |-> NormalizeVehicleFields(vehicle),
                      update_mask |-> mask]
              l == [NoLoc EXCEPT !.op = "UpdateVehicle", !.req = req]
              parsed == UUIDFromString(id)
              existing == StoreGetVehicleByID(vehicles, parsed.id)
              byPlate == StoreGetVehicleByLicensePlate(vehicles, req.vehicle.license_plate)
          IN IF ValidateUpdateVehicleRequest(req) # "nil" \/ parsed.err
             THEN Refuse(p, l, "InvalidArgument")
             ELSE IF existing.err # "nil"
             THEN Refuse(p, l, "NotFound")
             ELSE IF /\ req.vehicle.vehicle_type_id # EmptyStr
                     /\ StoreGetVehicleTypeByID(vehicleTypes, req.vehicle.vehicle_type_id)
                            # "nil"
             THEN Refuse(p, l, "InvalidArgument")
             ELSE IF /\ req.vehicle.license_plate # EmptyStr
                     /\ req.vehicle.license_plate # existing.vehicle.license_plate
                     /\ byPlate.err = "nil"
                     /\ byPlate.vehicle.external_id # existing.vehicle.external_id
             THEN Refuse(p, l, "AlreadyExists")
             ELSE Goto(p, "UpdateVehicle:write", l)
    /\ UNCHANGED <<vehicles, drivers>>
    /\ RaceFrame

\* "Update vehicle in store": store.UpdateVehicle and the codes of its errors
UpdateVehicleWrite(p) ==
    /\ pc[p] = "UpdateVehicle:write"
    /\ LET req == loc[p].req
           updated == StoreUpdateVehicle(vehicleTypes, vehicles, req.vehicle_id,
                                         VehicleUpdateFields(req.vehicle), req.update_mask,
                                         now)
       IN /\ vehicles' = updated.tbl
          /\ Written(p, CASE updated.err = "nil" -> "OK"
                          [] updated.err = "ErrVehicleNotFound" -> "NotFound"
                          [] updated.err = "ErrDuplicateEntry" -> "AlreadyExists"
                          [] OTHER -> "Internal")
    /\ UNCHANGED <<nops, drivers>>
    /\ RaceFrame

\* service.UpdateDriver up to "Update driver in store"
UpdateDriverBegin(p) ==
    /\ RaceBegin(p)
    /\ \E id \in {UUIDOf(1), UUIDOf(2)}, driver \in RaceDriverInputs :
          LET req == [driver_id |-> id, driver |-> NormalizeDriverFields(driver),
                      update_mask |-> NoMask]
              l == [NoLoc EXCEPT !.op = "UpdateDriver", !.req = req]
              parsed == UUIDFromString(id)
              existing == StoreGetDriverByID(drivers, parsed.id, now)
              byLicense == StoreGetDriverByLicenseNumber(drivers, req.driver.license_number,
                                                         now)
              byUser == StoreGetDriverByUserID(drivers, req.driver.user_id, now)
          IN IF ValidateUpdateDriverRequest(req, now) # "nil" \/ parsed.err
             THEN Refuse(p, l, "InvalidArgument")
             ELSE IF existing.err # "nil"
             THEN Refuse(p, l, "NotFound")
             ELSE IF \/ /\ req.driver.license_number # EmptyStr
                        /\ req.driver.license_number # existing.driver.license_number
                        /\ byLicense.err = "nil"
                        /\ byLicense.driver.external_id # existing.driver.external_id
                     \/ /\ req.driver.user_id # EmptyStr
                        /\ req.driver.user_id # existing.driver.user_id
                        /\ byUser.err = "nil"
                        /\ byUser.driver.external_id # existing.driver.external_id
             THEN Refuse(p, l, "AlreadyExists")
             ELSE Goto(p, "UpdateDriver:write", l)
    /\ UNCHANGED <<vehicles, drivers>>
    /\ RaceFrame

\* "Update driver in store": store.UpdateDriver and the codes of its errors
UpdateDriverWrite(p) ==
    /\ pc[p] = "UpdateDriver:write"
    /\ LET req == loc[p].req
           updated == StoreUpdateDriver(drivers, req.driver_id,
                                        DriverUpdateFields(req.driver), req.update_mask, now)
       IN /\ drivers' = updated.tbl
          /\ Written(p, CASE updated.err = "nil" -> "OK"
                          [] updated.err = "ErrDriverNotFound" -> "NotFound"
                          [] updated.err = "ErrDuplicateEntry" -> "AlreadyExists"
                          [] OTHER -> "Internal")
    /\ UNCHANGED <<nops, vehicles>>
    /\ RaceFrame

\* service.CreateVehicle of a vehicle with a license plate no seed holds, in
\* one step from its uniqueness check to its INSERT
CreateVehicleThird(p) ==
    /\ RaceBegin(p)
    /\ LET req == [vehicle_type_id |-> "1", license_plate |-> "KCC 003C", make |-> "Toyota",
                   year |-> 2018, color |-> "Blue", engine_number |-> EmptyStr]
           r == ServiceCreateVehicle(vehicleTypes, vehicles, req, now)
       IN /\ vehicles' = r.tbl
          /\ Refuse(p, [NoLoc EXCEPT !.op = "CreateVehicle", !.req = req], r.code)
    /\ UNCHANGED drivers
    /\ RaceFrame

NextRace ==
    \E p \in Procs :
        \/ UpdateVehicleBegin(p) \/ UpdateVehicleWrite(p)
        \/ UpdateDriverBegin(p) \/ UpdateDriverWrite(p)
        \/ CreateVehicleThird(p)

SpecRace == InitRace /\ [][NextRace]_vars

\* the request would set the license plate of its vehicle to one that another
\* vehicle of tbl holds
PlateConflict(tbl, req) ==
    /\ req.vehicle.license_plate # EmptyStr
    /\ UpdateFlag(req.update_mask, "license_plate", TRUE)
    /\ HasRow(tbl, req.vehicle_id)
    /\ \E b \in tbl : /\ b.external_id # req.vehicle_id
                      /\ b.license_plate = req.vehicle.license_plate

\* the request would set the user id or the license number of its driver to
\* one that another driver of tbl holds
DriverConflict(tbl, req) ==
    /\ HasRow(tbl, req.driver_id)
    /\ \E b \in tbl :
          /\ b.external_id # req.driver_id
          /\ \/ /\ req.driver.user_id # EmptyStr
                /\ UpdateFlag(req.update_mask, "user_id", TRUE)
                /\ b.user_id = req.driver.user_id
             \/ /\ req.driver.license_number # EmptyStr
                /\ UpdateFlag(req.update_mask, "license_number", TRUE)
                /\ b.license_number = req.driver.license_number

\* goroutine p takes the first step of a request op in this step
Starts(p, op) ==
    /\ pc[p] = "idle"
    /\ nops' = nops + 1
    /\ loc'[p].op = op
    /\ (pc'[p] # "idle" \/ last'.proc = p)

\* C19: an Update that would set a mutable unique field of an entity (the
\* license plate of a vehicle, the user id or license number of a driver) to
\* a value another entity holds fails with AlreadyExists and changes no row,
\* whether the uniqueness check of the service meets the other row or only the
\* write does, the row having been inserted or changed by a concurrent request
\* in between; no Update ends with Internal.
Thm_C19_DuplicateIsAlreadyExists ==
    [][\A p \in Procs :
          /\ (Starts(p, "UpdateVehicle") /\ PlateConflict(vehicles, loc'[p].req)) =>
                (pc'[p] = "idle" /\ loc'[p].code = "AlreadyExists" /\ vehicles' = vehicles)
          /\ (pc[p] = "UpdateVehicle:write" /\ pc'[p] = "idle"
              /\ PlateConflict(vehicles, loc[p].req)) =>
                (last'.code = "AlreadyExists" /\ vehicles' = vehicles)
          /\ (Starts(p, "UpdateDriver") /\ DriverConflict(drivers, loc'[p].req)) =>
                (pc'[p] = "idle" /\ loc'[p].code = "AlreadyExists" /\ drivers' = drivers)
          /\ (pc[p] = "UpdateDriver:write" /\ pc'[p] = "idle"
              /\ DriverConflict(drivers, loc[p].req)) =>
                (last'.code = "AlreadyExists" /\ drivers' = drivers)
          /\ loc'[p].code # "Internal"]_vars

\* an UpdateVehicle passed the uniqueness check with a free license plate, a
\* concurrent request then gave that plate to another vehicle, and the write
\* of the first was answered AlreadyExists with its vehicle as it was
Wit_C19_DuplicateIsAlreadyExists ==
    /\ last.op = "UpdateVehicle"
    /\ last.from = "write"
    /\ last.code = "AlreadyExists"
    /\ last.req.vehicle.license_plate = "KCC 003C"
    /\ RowOf(vehicles, last.req.vehicle_id) \in SeedVehicles("ACTIVE")
    /\ \E b \in vehicles : /\ b.external_id # last.req.vehicle_id
                           /\ b.license_plate = "KCC 003C"

(***************************************************************************)
(* Uniqueness violations of inserts, under SpecSeq                         *)
(***************************************************************************)

\* the last request was an AddDriverCertification for a stored driver whose
\* INSERT repeated the PRIMARY KEY of a stored certification
CertificationKeyRepeated ==
    /\ last.op = "AddDriverCertification"
    /\ HasRow(last.before.drivers, last.req.driver_id)
    /\ \E old \in last.before.certs : old.id = SnowflakeNext(last.at)

\* C20: every uniqueness violation the storage layer raises in a write
\* (Create, AddDriverCertification), on a unique or a primary key, reaches the
\* caller as AlreadyExists and never as Internal.
CE_C20_ViolationIsAlreadyExists ==
    /\ last.op \in {"CreateVehicle", "CreateDriver", "AddDriverCertification"} =>
          last.code # "Internal"
    /\ CertificationKeyRepeated => last.code = "AlreadyExists"

\* the second AddDriverCertification of a clock tick was answered Internal and
\* stored nothing
Reach_C20_CertificationInternal ==
    /\ CertificationKeyRepeated
    /\ last.code = "Internal"
    /\ certs = last.before.certs
(***************************************************************************)
(* SpecExpiring: GetExpiringLicenses pages read one after the other over   *)
(* a drivers table that CreateDriver and UpdateDriverStatus have filled    *)
(***************************************************************************)

MaxExpiryDay == 3     \* license_expiry dates of the drivers are days 1..MaxExpiryDay

\* the WHERE clause of getExpiringLicensesQuery on one row at NOW() = t; a DATE
\* compares with a DATETIME as its midnight
GetExpiringLicensesWhere(row, daysAhead, cursorStr, t) ==
    /\ ParseDate(row.license_expiry) >= t
    /\ ParseDate(row.license_expiry) <= t + daysAhead * TicksPerDay
    /\ row.status = "ACTIVE"
    /\ (cursorStr = EmptyText \/ row.created_at > cursorStr[2])

\* the orders ORDER BY license_expiry ASC, created_at DESC may give the rows of S
OrderedByLicenseExpiryAsc(S) ==
    LET n == Cardinality(S)
    IN  {q \in [1..n -> S] :
            \A i, j \in 1..n : i < j =>
                /\ q[i] # q[j]
                /\ \/ q[i].license_expiry < q[j].license_expiry
                   \/ /\ q[i].license_expiry = q[j].license_expiry
                      /\ q[i].created_at >= q[j].created_at}

\* the results getExpiringLicensesQuery may return
GetExpiringLicensesQuery(tbl, daysAhead, cursorStr, limit, t) ==
    LET S == {r \in tbl : GetExpiringLicensesWhere(r, daysAhead, cursorStr, t)}
    IN  {Limit(q, limit) : q \in OrderedByLicenseExpiryAsc(S)}

\* store.GetExpiringLicenses after the query: the scan loop and "Determine
\* next page token"
GetExpiringLicensesPage(fetched, pageSize, t) ==
    LET lastCreatedAt == IF Len(fetched) = 0 THEN ZeroTime
                         ELSE fetched[Len(fetched)].created_at
        scanned == [i \in 1..Len(fetched) |-> populateDriver(fetched[i], t)]
    IN  IF Len(fetched) > pageSize
        THEN [drivers |-> SubSeq(scanned, 1, pageSize),
              nextPageToken |-> EncodePageToken(lastCreatedAt), err |-> "nil"]
        ELSE [drivers |-> scanned, nextPageToken |-> EmptyToken, err |-> "nil"]

ExpiringError(msg) == [drivers |-> <<>>, nextPageToken |-> EmptyToken, err |-> msg]

\* store.GetExpiringLicenses: the results it may return at time t
StoreGetExpiringLicenses(tbl, daysAhead, params, t) ==
    LET pageSize == StorePageSize(params.PageSize)
        days == IF daysAhead <= 0 THEN 30 ELSE daysAhead
        decoded  == Base64Decode(params.PageToken)
        parsed   == UnmarshalText(decoded.text)
        cursorTime == IF params.PageToken = EmptyToken THEN ZeroTime ELSE parsed.time
        cursorStr == IF cursorTime = ZeroTime THEN EmptyText ELSE MarshalText(cursorTime)
    IN  IF params.PageToken # EmptyToken /\ decoded.err
        THEN {ExpiringError("invalid page token")}
        ELSE IF params.PageToken # EmptyToken /\ parsed.err
        THEN {ExpiringError("invalid page token format")}
        ELSE {GetExpiringLicensesPage(f, pageSize, t) :
                f \in GetExpiringLicensesQuery(tbl, days, cursorStr, pageSize + 1, t)}

\* service.GetExpiringLicenses: a store error becomes Internal
ServiceGetExpiringLicenses(tbl, req, t) ==
    LET daysAhead == IF req.days_ahead <= 0 THEN 30 ELSE req.days_ahead
        params == [PageSize |-> ServicePageSize(req.page_size),
                   PageToken |-> req.page_token]
    IN  {[r EXCEPT !.err = IF r.err = "nil" THEN "OK" ELSE "Internal"] :
            r \in StoreGetExpiringLicenses(tbl, daysAhead, params, t)}

\* license numbers and user ids of the drivers of the table, in creation order
LicenseNumbers == <<"DL1234567", "DL7654321", "DL1112223">>
UserOf(i) == "user-" \o ToString(i)

\* the table after drivers 1..n were created, driver i at tick i with a license
\* expiring on day ex[i], and activated at once where act[i] holds
RECURSIVE ExpiringDrivers(_, _, _)
ExpiringDrivers(n, ex, act) ==
    IF n = 0 THEN {}
    ELSE LET tbl == ExpiringDrivers(n - 1, ex, act)
             created == ServiceCreateDriver(tbl,
                            [user_id |-> UserOf(n), license_number |-> LicenseNumbers[n],
                             license_expiry |-> ParseDate(ex[n]), experience_years |-> 5],
                            n).tbl
             activated == ServiceUpdateDriverStatus(created,
                              [driver_id |-> NewV4(ExternalIDs(tbl)), status |-> "ACTIVE"],
                              n).tbl
         IN  IF act[n] THEN activated ELSE created

ExpiringTables ==
    UNION {{ExpiringDrivers(n, ex, act) :
               ex \in [1..n -> 1..MaxExpiryDay], act \in [1..n -> BOOLEAN]} :
           n \in 0..Len(LicenseNumbers)}

InitExpiring ==
    /\ drivers \in ExpiringTables
    /\ now = Len(LicenseNumbers)
    /\ vehicleTypes = {} /\ vehicles = {} /\ certs = {}
    /\ pc = <<>> /\ loc = <<>> /\ last = NoOp /\ nops = 0
    /\ listReq \in [page_size : PageSizeInputs, page_token : {EmptyToken},
                    days_ahead : {0, 1}]
    /\ listOut = [returned |-> <<>>, calls |-> 0, lastCall |-> ExpiringError("none"),
                  done |-> FALSE]
    /\ IdleFSM
    /\ IdleBoot

\* one GetExpiringLicenses call with the current token; the client keeps the
\* page and the token it got back
GetExpiringLicensesNextPage ==
    /\ ~listOut.done
    /\ \E r \in ServiceGetExpiringLicenses(drivers, listReq, now) :
          /\ listOut' = [returned |-> listOut.returned \o r.drivers,
                         calls |-> listOut.calls + 1,
                         lastCall |-> r,
                         done |-> (r.err # "OK" \/ r.nextPageToken = EmptyToken)]
          /\ listReq' = [listReq EXCEPT !.page_token = r.nextPageToken]
    /\ UNCHANGED <<lifeVars, fsmVars, bootVars>>

NextExpiring == GetExpiringLicensesNextPage

SpecExpiring == InitExpiring /\ [][NextExpiring]_vars

\* the page the last call returned is in created_at descending order
PageByCreatedAtDesc ==
    LET page == listOut.lastCall.drivers
    IN  \A i, j \in 1..Len(page) : i < j => page[i].created_at >= page[j].created_at

\* C21: every list query returns its rows ordered by created_at descending,
\* the key its page token encodes; stated for the page of a GetExpiringLicenses
\* call (ListVehicles orders by created_at, see OrderedByCreatedAtDesc)
CE_C21_OrderedByCreatedAtDesc ==
    (listOut.calls > 0 /\ listOut.lastCall.err = "OK") => PageByCreatedAtDesc

\* a GetExpiringLicenses page that lists a driver created earlier before one
\* created later
Reach_C21_PageNotByCreatedAt ==
    /\ listOut.calls > 0
    /\ listOut.lastCall.err = "OK"
    /\ ~PageByCreatedAtDesc
(***************************************************************************)
(* SpecLife: creates, partial updates, status updates and soft deletes     *)
(* handled one after the other on the seeded tables, while the clock runs  *)
(***************************************************************************)

MaxWrites == 2     \* requests handled in one behaviour of SpecLife

\* the id of the first seeded row and the id the next created row gets
LifeIDInputs == {UUIDOf(1), UUIDOf(3)}

\* a plate no vehicle has and the plate of the first vehicle, with a status
\* field the request may carry
LifeCreateVehicleInputs ==
    {[vehicle_type_id |-> "1", license_plate |-> x[1], make |-> "Mazda", year |-> 2021,
      color |-> "Red", engine_number |-> EmptyStr, status |-> x[2]] :
        x \in {"KCC 003C", "KAA 001A"} \X {"STATUS_UNSPECIFIED", "RETIRED"}}

LifeCreateDriverInputs ==
    {[user_id |-> x[1], license_number |-> "DL1112223",
      license_expiry |-> now + TicksPerDay, experience_years |-> 2, status |-> x[2]] :
        x \in {"user-3", "user-1"} \X {"STATUS_UNSPECIFIED", "ACTIVE"}}

LifeUpdateVehicleInputs ==
    {[vehicle_type_id |-> EmptyStr, license_plate |-> x[1], make |-> EmptyStr,
      year |-> 0, color |-> x[2], engine_number |-> EmptyStr] :
        x \in {<<EmptyStr, "White">>, <<"KBB 002B", "White">>, <<EmptyStr, EmptyStr>>}}

LifeUpdateDriverInputs ==
    {[user_id |-> x[1], license_number |-> EmptyStr, license_expiry |-> NullTime,
      experience_years |-> x[2]] :
        x \in {<<EmptyStr, 7>>, <<"user-2", 7>>, <<EmptyStr, 0>>}}

LifeStarted ==
    /\ nops < MaxWrites
    /\ nops' = nops + 1
    /\ UNCHANGED <<now, vehicleTypes, certs, pc, loc, fsmVars, listVars, bootVars>>

LifeCreateVehicle ==
    /\ LifeStarted
    /\ \E req \in LifeCreateVehicleInputs :
          LET r == ServiceCreateVehicle(vehicleTypes, vehicles, req, now)
          IN vehicles' = r.tbl /\ Done("CreateVehicle", req, r.code)
    /\ UNCHANGED drivers

LifeCreateDriver ==
    /\ LifeStarted
    /\ \E req \in LifeCreateDriverInputs :
          LET r == ServiceCreateDriver(drivers, req, now)
          IN drivers' = r.tbl /\ Done("CreateDriver", req, r.code)
    /\ UNCHANGED vehicles

LifeUpdateVehicle ==
    /\ LifeStarted
    /\ \E id \in LifeIDInputs, vehicle \in LifeUpdateVehicleInputs,
          mask \in {NoMask, FieldMask(<<"color">>)} :
          LET req == [vehicle_id |-> id, vehicle |-> vehicle, update_mask |-> mask]
              r == ServiceUpdateVehicle(vehicleTypes, vehicles, req, now)
          IN vehicles' = r.tbl /\ Done("UpdateVehicle", req, r.code)
    /\ UNCHANGED drivers

LifeUpdateDriver ==
    /\ LifeStarted
    /\ \E id \in LifeIDInputs, driver \in LifeUpdateDriverInputs,
          mask \in {NoMask, FieldMask(<<"experience_years">>)} :
          LET req == [driver_id |-> id, driver |-> driver, update_mask |-> mask]
              r == ServiceUpdateDriver(drivers, req, now)
          IN drivers' = r.tbl /\ Done("UpdateDriver", req, r.code)
    /\ UNCHANGED vehicles

LifeUpdateVehicleStatus ==
    /\ LifeStarted
    /\ \E id \in LifeIDInputs, status \in VehicleStatuses :
          LET req == [vehicle_id |-> id, status |-> status]
              r == ServiceUpdateVehicleStatus(vehicles, req, now)
          IN vehicles' = r.tbl /\ Done("UpdateVehicleStatus", req, r.code)
    /\ UNCHANGED drivers

LifeUpdateDriverStatus ==
    /\ LifeStarted
    /\ \E id \in LifeIDInputs, status \in DriverStatuses :
          LET req == [driver_id |-> id, status |-> status]
              r == ServiceUpdateDriverStatus(drivers, req, now)
          IN drivers' = r.tbl /\ Done("UpdateDriverStatus", req, r.code)
    /\ UNCHANGED vehicles

LifeDeleteVehicle ==
    /\ LifeStarted
    /\ \E id \in LifeIDInputs :
          LET req == [vehicle_id |-> id]
              r == ServiceDeleteVehicle(vehicles, req, now)
          IN vehicles' = r.tbl /\ Done("DeleteVehicle", req, r.code)
    /\ UNCHANGED drivers

LifeDeleteDriver ==
    /\ LifeStarted
    /\ \E id \in LifeIDInputs :
          LET req == [driver_id |-> id]
              r == ServiceDeleteDriver(drivers, req, now)
          IN drivers' = r.tbl /\ Done("DeleteDriver", req, r.code)
    /\ UNCHANGED vehicles

NextLife ==
    \/ Tick
    \/ LifeCreateVehicle \/ LifeUpdateVehicle \/ LifeUpdateVehicleStatus \/ LifeDeleteVehicle
    \/ LifeCreateDriver \/ LifeUpdateDriver \/ LifeUpdateDriverStatus \/ LifeDeleteDriver

SpecLife == InitUpdate /\ [][NextLife]_vars

\* the handlers that write to a row that exists
WritesExisting(op) ==
    op \in {"UpdateVehicle", "UpdateVehicleStatus", "DeleteVehicle",
            "UpdateDriver", "UpdateDriverStatus", "DeleteDriver"}

\* the rows that now hold the id the last request names
TargetRows ==
    IF last.op \in {"UpdateVehicle", "UpdateVehicleStatus", "DeleteVehicle"}
    THEN {row \in vehicles : row.external_id = last.req.vehicle_id}
    ELSE {row \in drivers : row.external_id = last.req.driver_id}

\* no row of tbl has an updated_at earlier than the row of the same id in old
NotEarlier(old, tbl) ==
    \A a \in old : \A b \in tbl :
        a.external_id = b.external_id => b.updated_at >= a.updated_at

StillStored(old, tbl) == \A a \in old : HasRow(tbl, a.external_id)

\* C23: no request removes a row, so every vehicle and driver the tables held
\* before the last request is still stored; after a successful soft Delete, a
\* Get by the same external id succeeds and returns the entity as RETIRED (a
\* vehicle) or INACTIVE (a driver)
Thm_C23_RowsPersist ==
    last.op # "none" =>
        /\ StillStored(last.before.vehicles, vehicles)
        /\ StillStored(last.before.drivers, drivers)
        /\ (last.op = "DeleteVehicle" /\ last.code = "OK") =>
              LET got == StoreGetVehicleByID(vehicles, last.req.vehicle_id)
              IN  got.err = "nil" /\ got.vehicle.status = "RETIRED"
        /\ (last.op = "DeleteDriver" /\ last.code = "OK") =>
              LET got == StoreGetDriverByID(drivers, last.req.driver_id, now)
              IN  got.err = "nil" /\ got.driver.status = "INACTIVE"

\* a driver created by the first request was soft-deleted by the second and is
\* still stored, with the two seeded drivers
Wit_C23_RowsPersist ==
    /\ last.op = "DeleteDriver" /\ last.code = "OK"
    /\ last.req.driver_id = UUIDOf(3)
    /\ Cardinality(drivers) = 3
    /\ RowOf(drivers, UUIDOf(3)).status = "INACTIVE"

\* the rows the last request added to a table
CreatedRows(old, tbl) == {row \in tbl : ~HasRow(old, row.external_id)}

\* C24: a successful Create stores exactly one new row, in the initial status
\* of its type whatever status the request carries (vehicle ACTIVE, driver
\* PENDING_VERIFICATION), and returns it in that status; no stored status is
\* empty or STATUS_UNSPECIFIED (users, which the user store inserts as ACTIVE
\* in the same way, are not part of the model)
Thm_C24_InitialStatus ==
    /\ (last.op = "CreateVehicle" /\ last.code = "OK") =>
          LET created == CreatedRows(last.before.vehicles, vehicles)
          IN  /\ Cardinality(created) = 1
              /\ \A row \in created :
                    /\ row.status = "ACTIVE"
                    /\ StoreGetVehicleByID(vehicles, row.external_id).vehicle.status = "ACTIVE"
    /\ (last.op = "CreateDriver" /\ last.code = "OK") =>
          LET created == CreatedRows(last.before.drivers, drivers)
          IN  /\ Cardinality(created) = 1
              /\ \A row \in created :
                    /\ row.status = "PENDING_VERIFICATION"
                    /\ StoreGetDriverByID(drivers, row.external_id, last.at).driver.status
                          = "PENDING_VERIFICATION"
    /\ \A row \in vehicles : row.status \in VehicleStatuses \ {"STATUS_UNSPECIFIED"}
    /\ \A row \in drivers : row.status \in DriverStatuses \ {"STATUS_UNSPECIFIED"}

\* a vehicle was created, then a driver whose request asked for ACTIVE, and the
\* driver is stored as PENDING_VERIFICATION
Wit_C24_InitialStatus ==
    /\ last.op = "CreateDriver" /\ last.code = "OK" /\ last.req.status = "ACTIVE"
    /\ \E row \in vehicles : row.external_id = UUIDOf(3) /\ row.make = "Mazda"
    /\ \E row \in drivers : row.external_id = UUIDOf(3) /\ row.status = "PENDING_VERIFICATION"

\* the time a page token decodes to in store.ListVehicles
DecodePageToken(tok) == UnmarshalText(Base64Decode(tok).text)

\* the token the last call returned decodes, without error, to the created_at
\* of the last row the call scanned, and the client sends that token next
TokenDecodesToCreatedAt ==
    LET r == listOut.lastCall
    IN  (listOut.calls > 0 /\ r.nextPageToken # EmptyToken) =>
            /\ ~Base64Decode(r.nextPageToken).err
            /\ ~DecodePageToken(r.nextPageToken).err
            /\ DecodePageToken(r.nextPageToken).time = r.fetched[Len(r.fetched)].created_at
            /\ listReq.page_token = r.nextPageToken

\* a call made with a token that decodes fetches the first rows, up to the
\* limit, of those created after the decoded time and no other row
CursorIsDecodedTime ==
    LET t == DecodePageToken(listReq.page_token).time
        r == listOut'.lastCall
        newer == {row \in Matching : row.created_at > t}
    IN  (/\ listOut'.calls = listOut.calls + 1
         /\ listReq.page_token # EmptyToken
         /\ ~DecodePageToken(listReq.page_token).err)
        => /\ r.err = "OK"
           /\ \A i \in 1..Len(r.fetched) : r.fetched[i] \in newer
           /\ Len(r.fetched) = IF Cardinality(newer) > r.limit THEN r.limit
                               ELSE Cardinality(newer)

FilterKinds ==
    {<<"1", "Toyota", "ACTIVE">>, <<"2", "Toyota", "ACTIVE">>,
     <<"1", "Mazda", "ACTIVE">>, <<"1", "Toyota", "MAINTENANCE">>}

\* the i-th vehicle, created at tick i
FilterRow(i, kind) ==
    VehicleRow(SnowflakeNext(i), UUIDOf(i), kind[1], PlateOf(i), kind[2], 2018, "Blue",
               NULL, NULL, kind[3], i, i)

FilterTables ==
    UNION {{{FilterRow(i, k[i]) : i \in 1..n} : k \in [1..n -> FilterKinds]} :
           n \in 0..MaxListRows}

InitFilter ==
    /\ vehicles \in FilterTables
    /\ now = MaxListRows
    /\ vehicleTypes = {"1", "2"}
    /\ drivers = {} /\ certs = {}
    /\ pc = <<>> /\ loc = <<>> /\ last = NoOp /\ nops = 0
    /\ listReq \in [page_size : {0, 1}, page_token : {EmptyToken},
                    status_filter : {NoFilter, "ACTIVE", "STATUS_UNSPECIFIED"},
                    vehicle_type_filter : {NoFilter, EmptyStr, "1"},
                    make_filter : {NoFilter, EmptyStr, "oy", "Mazda", "T_y", "%"}]
    /\ listOut = [returned |-> <<>>, calls |-> 0, lastCall |-> ListError("none"),
                  done |-> FALSE]
    /\ IdleFSM
    /\ IdleBoot

SpecFilter == InitFilter /\ [][NextList]_vars

\* a filter the request sets: a pointer that is not nil and, for the two text
\* filters, a text that is not empty
FilterSet(f) == f \notin {NoFilter, EmptyStr}

\* f occurs in text as a run of consecutive characters
IsSubstring(f, text) ==
    \E i \in 0..(Len(text) - Len(f)) : SubSeq(text, i + 1, i + Len(f)) = f

\* the row satisfies the filters the request sets
SatisfiesFilters(row) ==
    /\ listReq.status_filter # NoFilter => row.status = listReq.status_filter
    /\ FilterSet(listReq.vehicle_type_filter) =>
          row.vehicle_type_id = listReq.vehicle_type_filter
    /\ FilterSet(listReq.make_filter) =>
          IsSubstring(Chars(listReq.make_filter), Chars(row.make))

\* C26: every element a ListVehicles call returns satisfies every filter the
\* request sets (status equality, vehicle type equality, make filter a substring
\* of the make)
CE_C26_ReturnedRowsSatisfyFilters ==
    (listOut.calls > 0 /\ listOut.lastCall.err = "OK") =>
        \A i \in 1..Len(listOut.lastCall.vehicles) :
            SatisfiesFilters(listOut.lastCall.vehicles[i])

\* a call with a make filter returned a vehicle whose make does not contain
\* the filter text
Reach_C26_MakeNotContained ==
    /\ listOut.calls > 0 /\ listOut.lastCall.err = "OK"
    /\ FilterSet(listReq.make_filter)
    /\ \E i \in 1..Len(listOut.lastCall.vehicles) :
          ~IsSubstring(Chars(listReq.make_filter), Chars(listOut.lastCall.vehicles[i].make))

\* every row of old is in tbl with the identifiers and the created_at it had
SameIdentity(old, tbl) ==
    \A a \in old : \E b \in tbl :
        /\ b.external_id = a.external_id
        /\ b.internal_id = a.internal_id
        /\ b.created_at = a.created_at

\* C27: no Update (with or without mask), UpdateStatus or soft Delete changes
\* the external_id, the internal_id or the created_at of a stored vehicle or
\* driver, and none of them adds a row
Thm_C27_IdentityImmutable ==
    last.op # "none" =>
        /\ SameIdentity(last.before.vehicles, vehicles)
        /\ SameIdentity(last.before.drivers, drivers)
        /\ WritesExisting(last.op) =>
              /\ Cardinality(vehicles) = Cardinality(last.before.vehicles)
              /\ Cardinality(drivers) = Cardinality(last.before.drivers)

\* the first seeded driver was retired and then updated under a mask at a later
\* tick, and kept its identifiers and created_at
Wit_C27_IdentityImmutable ==
    /\ last.op = "UpdateDriver" /\ last.code = "OK" /\ last.req.update_mask.set
    /\ last.req.driver_id = UUIDOf(1)
    /\ \E row \in drivers :
          /\ row.external_id = UUIDOf(1)
          /\ row.status = "INACTIVE"
          /\ row.updated_at > row.created_at
          /\ row.created_at = 0
          /\ row.internal_id = SnowflakeNext(0)

\* goroutine p runs the UPDATE of store.DeleteVehicle in this step
DeleteWriteStep(p) == pc[p] = "DeleteVehicle:write" /\ pc'[p] = "idle"

\* C28: under any interleaving of a DeleteVehicle with concurrent
\* UpdateVehicleStatus requests on the same vehicle, the soft-delete write
\* leaves a vehicle that is stored as ASSIGNED at the time of the write as it is
CE_C28_AssignedNeverRetiredByDelete ==
    [][\A p \in Procs :
          DeleteWriteStep(p) =>
              \A old \in vehicles :
                  (old.external_id = loc[p].req.vehicle_id /\ old.status = "ASSIGNED")
                      => old \in vehicles']_vars

\* a DeleteVehicle and an UpdateVehicleStatus to ASSIGNED of the same vehicle
\* both succeeded, the delete wrote last, and the vehicle is RETIRED
Reach_C28_AssignedRetired ==
    /\ last.op = "DeleteVehicle" /\ last.code = "OK"
    /\ \E q \in Procs :
          /\ q # last.proc
          /\ pc[q] = "idle"
          /\ loc[q].op = "UpdateVehicleStatus" /\ loc[q].code = "OK"
          /\ loc[q].req.status = "ASSIGNED"
          /\ loc[q].req.vehicle_id = last.req.vehicle_id
    /\ \E row \in vehicles :
          /\ row.external_id = last.req.vehicle_id
          /\ row.status = "RETIRED"
          /\ row.make = "Toyota"

(***************************************************************************)
(* Fields outside the mask, under SpecUpdate                               *)
(***************************************************************************)

\* payload other has the values of payload mine in every field the mask names
AgreeOnMask(mine, other) ==
    \A path \in MaskedPaths \cap DOMAIN mine : other[path] = mine[path]

\* the answer and table the service gives when the last request, on the tables
\* it found, carries payload other instead of its own
OutcomeWithVehicle(other) ==
    ServiceUpdateVehicle(vehicleTypes, last.before.vehicles,
                         [last.req EXCEPT !.vehicle = other], last.at)

OutcomeWithDriver(other) ==
    ServiceUpdateDriver(last.before.drivers, [last.req EXCEPT !.driver = other], last.at)

\* C29: with an explicit mask M, the status code of UpdateVehicle / UpdateDriver
\* and the stored state after it depend only on the id, M and the payload
\* values of the fields in M: a request that differs only in payload values of
\* fields outside M has the same outcome
CE_C29_OutsideMaskIgnored ==
    /\ (last.op = "UpdateVehicle" /\ last.req.update_mask.set) =>
          \A other \in UpdateVehicleInputs :
              AgreeOnMask(last.req.vehicle, other) =>
                  /\ OutcomeWithVehicle(other).code = last.code
                  /\ OutcomeWithVehicle(other).tbl = vehicles
    /\ (last.op = "UpdateDriver" /\ last.req.update_mask.set) =>
          \A other \in UpdateDriverInputs :
              AgreeOnMask(last.req.driver, other) =>
                  /\ OutcomeWithDriver(other).code = last.code
                  /\ OutcomeWithDriver(other).tbl = drivers

\* an UpdateVehicle of the first vehicle with mask (color) was refused as
\* AlreadyExists for the license plate of the second vehicle in its payload,
\* while the same request without a license plate succeeds
Reach_C29_PlateOutsideMaskRefused ==
    /\ last.op = "UpdateVehicle" /\ last.code = "AlreadyExists"
    /\ last.req.vehicle_id = UUIDOf(1)
    /\ last.req.update_mask = FieldMask(<<"color">>)
    /\ last.req.vehicle.license_plate = "KBB 002B"
    /\ last.req.vehicle.color = "White"
    /\ vehicles = last.before.vehicles
    /\ OutcomeWithVehicle([last.req.vehicle EXCEPT !.license_plate = EmptyStr]).code = "OK"

(***************************************************************************)
(* Update without a mask, under SpecUpdate                                 *)
(***************************************************************************)

\* the last request was an Update without a field mask on a stored row
NoMaskUpdate ==
    /\ last.op \in {"UpdateVehicle", "UpdateDriver"}
    /\ ~last.req.update_mask.set
    /\ IF last.op = "UpdateVehicle"
       THEN HasRow(last.before.vehicles, last.req.vehicle_id)
       ELSE HasRow(last.before.drivers, last.req.driver_id)

\* the payload of the last request as it came, and the target row before it
Payload == IF last.op = "UpdateVehicle" THEN last.req.vehicle ELSE last.req.driver

RowBefore ==
    IF last.op = "UpdateVehicle" THEN RowOf(last.before.vehicles, last.req.vehicle_id)
    ELSE RowOf(last.before.drivers, last.req.driver_id)

\* the payload value that stands for "not provided" in a field
ZeroValue(path) ==
    IF path \in {"year", "experience_years"} THEN 0
    ELSE IF path = "license_expiry" THEN NullTime
    ELSE EmptyStr

Provided(path) == Payload[path] # ZeroValue(path)

\* C30: without a field mask, a successful Update writes exactly the fields
\* whose payload value is non-empty / non-zero; a column whose payload value is
\* empty or zero keeps its stored value, so no column is cleared and no numeric
\* column set to 0 (a refused Update writes nothing)
Thm_C30_NoMaskWritesProvided ==
    NoMaskUpdate =>
        \A path \in DOMAIN Payload :
            /\ ~Provided(path) => TargetRow[path] = RowBefore[path]
            /\ (Provided(path) /\ last.code = "OK") => TargetRow[path] = PayloadColumns[path]
            /\ last.code # "OK" => TargetRow[path] = RowBefore[path]

\* an UpdateVehicle without mask that carried a make and no year and no color
\* stored the make and kept the year and the color
Wit_C30_NoMaskWritesProvided ==
    /\ NoMaskUpdate
    /\ last.op = "UpdateVehicle" /\ last.code = "OK"
    /\ last.req.vehicle.make = "Honda"
    /\ last.req.vehicle.year = 0 /\ last.req.vehicle.color = EmptyStr
    /\ RowBefore.make = "Toyota"
    /\ TargetRow.make = "Honda" /\ TargetRow.year = 2018 /\ TargetRow.color = "Blue"

(***************************************************************************)
(* Mask paths of the validator and of the store, under SpecUpdate          *)
(***************************************************************************)

\* the paths the switch of store.UpdateVehicle and of store.UpdateDriver turns
\* into an update flag
StoreVehiclePaths ==
    {"vehicle_type_id", "license_plate", "make", "model", "year", "color",
     "seating_capacity", "fuel_type", "engine_number", "chassis_number",
     "registration_date", "insurance_expiry"}

StoreDriverPaths ==
    {"user_id", "license_number", "license_class", "license_expiry", "experience_years",
     "phone_number", "emergency_contact_name", "emergency_contact_phone", "hire_date"}

\* what request validation says of the last Update request
UpdateValidation ==
    IF last.op = "UpdateVehicle"
    THEN ValidateUpdateVehicleRequest([last.req EXCEPT !.vehicle = NormalizeVehicleFields(@)])
    ELSE ValidateUpdateDriverRequest([last.req EXCEPT !.driver = NormalizeDriverFields(@)],
                                     last.at)

\* what store.UpdateVehicle does with the last request on the tables it found
StoreOnLastVehicleUpdate ==
    StoreUpdateVehicle(vehicleTypes, last.before.vehicles, last.req.vehicle_id,
                       VehicleUpdateFields(NormalizeVehicleFields(last.req.vehicle)),
                       last.req.update_mask, last.at)

\* C31: the mask paths request validation accepts are the paths the store's
\* Update honours: a mask of paths the store applies is not refused as
\* unsupported, and a mask validation does not refuse as unsupported holds
\* only paths the store applies
CE_C31_ValidatorAndStorePathsAgree ==
    (last.op \in {"UpdateVehicle", "UpdateDriver"} /\ last.req.update_mask.set) =>
        LET honoured == IF last.op = "UpdateVehicle" THEN StoreVehiclePaths
                        ELSE StoreDriverPaths
        IN  /\ MaskedPaths \subseteq honoured
                  => UpdateValidation # "unsupported field path"
            /\ (~UnknownPathMasked) => MaskedPaths \subseteq honoured

\* an UpdateVehicle of a stored vehicle with mask (registration_date) was
\* refused as InvalidArgument, while store.UpdateVehicle applies the request
Reach_C31_RegistrationDateRefused ==
    /\ last.op = "UpdateVehicle" /\ last.code = "InvalidArgument"
    /\ last.req.update_mask = FieldMask(<<"registration_date">>)
    /\ last.req.vehicle_id = UUIDOf(1)
    /\ UpdateValidation = "unsupported field path"
    /\ vehicles = last.before.vehicles
    /\ StoreOnLastVehicleUpdate.err = "nil"

(***************************************************************************)
(* SpecBoot: InitializeStandardVehicleTypes, run by two service instances  *)
(* against the same vehicle_types table                                    *)
(***************************************************************************)

MaxBootRuns == 2    \* runs of InitializeStandardVehicleTypes one instance makes

\* types.StandardVehicleTypes, by name, in the order of the slice
StandardVehicleTypes == <<"cab", "bus", "matatu", "bodaboda", "truck", "van", "pickup">>

StandardNames == {StandardVehicleTypes[i] : i \in DOMAIN StandardVehicleTypes}

\* id INT PRIMARY KEY AUTO_INCREMENT
NextTypeID(rows) ==
    IF rows = {} THEN 1
    ELSE (CHOOSE m \in {r.id : r \in rows} : \A r \in rows : r.id <= m) + 1

\* SELECT ... FROM vehicle_types WHERE name = ?; sql.ErrNoRows is
\* ErrVehicleTypeNotFound
StoreGetVehicleTypeByName(rows, name) ==
    IF \E r \in rows : r.name = name THEN "nil" ELSE "ErrVehicleTypeNotFound"

\* faulty variant: the name column without its UNIQUE key
StoreCreateVehicleType_NoUniqueName(rows, name) ==
    [err |-> "nil", rows |-> rows \cup {[id |-> NextTypeID(rows), name |-> name]}]

\* INSERT INTO vehicle_types (name, description, created_at); name is UNIQUE,
\* MySQL error 1062 is ErrDuplicateEntry
StoreCreateVehicleType(rows, name) ==
    IF \E r \in rows : r.name = name
    THEN [err |-> "ErrDuplicateEntry", rows |-> rows]
    ELSE [err |-> "nil", rows |-> rows \cup {[id |-> NextTypeID(rows), name |-> name]}]

\* the table after the migration's INSERT IGNORE of the names of present, in
\* the order of the statement
RECURSIVE MigratedRows(_, _)
MigratedRows(i, present) ==
    IF i = 0 THEN {}
    ELSE LET rows == MigratedRows(i - 1, present)
         IN  IF StandardVehicleTypes[i] \in present
             THEN StoreCreateVehicleType(rows, StandardVehicleTypes[i]).rows
             ELSE rows

\* locals of an instance: the index of stdType in the range loop, the error
\* its run returned, whether one of its inserts has met a duplicate entry, and
\* the number of runs it has started
BootIdle == [i |-> 1, err |-> "none", lost |-> FALSE, runs |-> 0]

InitBoot ==
    /\ typeRows \in {MigratedRows(Len(StandardVehicleTypes), present) :
                        present \in {{}, {"cab"}, {"bus", "pickup"}, StandardNames}}
    /\ vehicleTypes = {ToString(r.id) : r \in typeRows}
    /\ oauthStates = {} /\ oauthLog = NoOAuthLog
    /\ now = 0
    /\ vehicles = {} /\ drivers = {} /\ certs = {}
    /\ pc = [p \in Procs |-> "idle"]
    /\ loc = [p \in Procs |-> BootIdle]
    /\ last = NoOp /\ nops = 0
    /\ IdleFSM /\ IdleList

BootFrame == UNCHANGED <<now, vehicles, drivers, certs, last, nops, oauthStates, oauthLog, fsmVars, listVars>>

\* the end of one iteration of the range loop
BootAdvance(p, lost) ==
    IF loc[p].i = Len(StandardVehicleTypes)
    THEN /\ pc' = [pc EXCEPT ![p] = "done"]
         /\ loc' = [loc EXCEPT ![p].err = "nil", ![p].lost = lost]
    ELSE /\ pc' = [pc EXCEPT ![p] = "get"]
         /\ loc' = [loc EXCEPT ![p].i = @ + 1, ![p].lost = lost]

InitializeBegin(p) ==
    /\ pc[p] \in {"idle", "done"}
    /\ loc[p].runs < MaxBootRuns
    /\ pc' = [pc EXCEPT ![p] = "get"]
    /\ loc' = [loc EXCEPT ![p] = [i |-> 1, err |-> "none", lost |-> loc[p].lost, runs |-> loc[p].runs + 1]]
    /\ UNCHANGED <<typeRows, vehicleTypes>>
    /\ BootFrame

InitializeGet(p) ==
    /\ pc[p] = "get"
    /\ LET err == StoreGetVehicleTypeByName(typeRows, StandardVehicleTypes[loc[p].i])
       IN  IF err = "ErrVehicleTypeNotFound"
           THEN pc' = [pc EXCEPT ![p] = "create"] /\ UNCHANGED loc
           ELSE IF err # "nil"
           THEN /\ pc' = [pc EXCEPT ![p] = "done"]
                /\ loc' = [loc EXCEPT ![p].err = "failed to check vehicle type"]
           ELSE BootAdvance(p, loc[p].lost)
    /\ UNCHANGED <<typeRows, vehicleTypes>>
    /\ BootFrame

InitializeCreate(p) ==
    /\ pc[p] = "create"
    /\ LET r == StoreCreateVehicleType(typeRows, StandardVehicleTypes[loc[p].i])
       IN  /\ typeRows' = r.rows
           /\ vehicleTypes' = {ToString(row.id) : row \in r.rows}
           /\ IF r.err # "nil" /\ r.err # "ErrDuplicateEntry"
              THEN /\ pc' = [pc EXCEPT ![p] = "done"]
                   /\ loc' = [loc EXCEPT ![p].err = "failed to create standard vehicle type"]
              ELSE BootAdvance(p, loc[p].lost \/ r.err = "ErrDuplicateEntry")
    /\ BootFrame

NextBoot == \E p \in Procs : InitializeBegin(p) \/ InitializeGet(p) \/ InitializeCreate(p)

SpecBoot == InitBoot /\ [][NextBoot]_vars

RowsNamed(name) == {r \in typeRows : r.name = name}

\* C32: InitializeStandardVehicleTypes is idempotent, also when two instances
\* run it concurrently against the same store: no name is ever stored twice,
\* every run that has completed returned nil, also one whose insert met a
\* duplicate entry, and once a run has completed each of the seven standard
\* names is stored exactly once.
Thm_C32_InitializeIdempotent ==
    /\ \A name \in StandardNames : Cardinality(RowsNamed(name)) <= 1
    /\ \A p \in Procs :
          pc[p] = "done" =>
              /\ loc[p].err = "nil"
              /\ \A name \in StandardNames : Cardinality(RowsNamed(name)) = 1

\* both instances have completed their second run, one of them after losing
\* the race for a name, and the seven names are stored
Wit_C32_InitializeIdempotent ==
    /\ \A p \in Procs : pc[p] = "done" /\ loc[p].runs = MaxBootRuns /\ loc[p].err = "nil"
    /\ \E p \in Procs : loc[p].lost
    /\ {r.name : r \in typeRows} = StandardNames
    /\ Cardinality(typeRows) = Len(StandardVehicleTypes)

(***************************************************************************)
(* SpecOAuth: HandleGoogleLogin and HandleGoogleCallback, each request in  *)
(* its own goroutine of the HTTP server, on the handler's oauthStates map  *)
(***************************************************************************)

MaxOAuthOps == 4    \* requests a run of SpecOAuth starts

\* values rand.Read and base64.RawURLEncoding give HandleGoogleLogin; every
\* call draws a value no earlier call drew
IssuableStates == {"state-1", "state-2"}

\* the state parameter of a callback: an issuable value, a value no login
\* draws, or a missing parameter, which Query().Get reads as ""
CallbackStates == IssuableStates \cup {"forged", ""}

OAuthIdle == [state |-> "", code |-> "none"]

InitOAuth ==
    /\ oauthStates = {}
    /\ oauthLog = [issued |-> {}, accepted |-> [s \in CallbackStates |-> 0]]
    /\ typeRows = {}
    /\ now = 0
    /\ vehicleTypes = {} /\ vehicles = {} /\ drivers = {} /\ certs = {}
    /\ pc = [p \in Procs |-> "idle"]
    /\ loc = [p \in Procs |-> OAuthIdle]
    /\ last = NoOp /\ nops = 0
    /\ IdleFSM /\ IdleList

OAuthFrame == UNCHANGED <<now, tableVars, typeRows, last, fsmVars, listVars>>

\* HandleGoogleLogin up to the write of the map: the state is drawn, or
\* rand.Read fails and the handler answers 500
HandleGoogleLoginBegin(p) ==
    /\ pc[p] = "idle"
    /\ nops < MaxOAuthOps
    /\ nops' = nops + 1
    /\ \/ \E state \in IssuableStates \ (oauthLog.issued \cup {loc[q].state : q \in Procs}) :
             /\ pc' = [pc EXCEPT ![p] = "store"]
             /\ loc' = [loc EXCEPT ![p] = [state |-> state, code |-> "none"]]
       \/ /\ loc' = [loc EXCEPT ![p] = [state |-> "", code |-> "500"]]
          /\ UNCHANGED pc
    /\ UNCHANGED <<oauthStates, oauthLog>>
    /\ OAuthFrame

\* h.oauthStates[state] = "/", then the redirect to the consent screen
HandleGoogleLoginStore(p) ==
    /\ pc[p] = "store"
    /\ oauthStates' = oauthStates \cup {loc[p].state}
    /\ oauthLog' = [oauthLog EXCEPT !.issued = @ \cup {loc[p].state}]
    /\ pc' = [pc EXCEPT ![p] = "idle"]
    /\ loc' = [loc EXCEPT ![p].code = "307"]
    /\ UNCHANGED nops
    /\ OAuthFrame

\* HandleGoogleCallback reads its state parameter
HandleGoogleCallbackBegin(p) ==
    /\ pc[p] = "idle"
    /\ nops < MaxOAuthOps
    /\ nops' = nops + 1
    /\ \E state \in CallbackStates :
          loc' = [loc EXCEPT ![p] = [state |-> state, code |-> "none"]]
    /\ pc' = [pc EXCEPT ![p] = "check"]
    /\ UNCHANGED <<oauthStates, oauthLog>>
    /\ OAuthFrame

\* _, ok := h.oauthStates[state]
StateKnown(states, state) == state \in states

\* if _, ok := h.oauthStates[state]; !ok: 400, else the state is accepted
HandleGoogleCallbackCheck(p) ==
    /\ pc[p] = "check"
    /\ IF StateKnown(oauthStates, loc[p].state)
       THEN /\ pc' = [pc EXCEPT ![p] = "delete"]
            /\ oauthLog' = [oauthLog EXCEPT !.accepted[loc[p].state] = @ + 1]
            /\ UNCHANGED loc
       ELSE /\ pc' = [pc EXCEPT ![p] = "idle"]
            /\ loc' = [loc EXCEPT ![p].code = "400"]
            /\ UNCHANGED oauthLog
    /\ UNCHANGED <<oauthStates, nops>>
    /\ OAuthFrame

\* delete(h.oauthStates, state); the handler goes on to the code exchange
HandleGoogleCallbackDelete(p) ==
    /\ pc[p] = "delete"
    /\ oauthStates' = oauthStates \ {loc[p].state}
    /\ pc' = [pc EXCEPT ![p] = "idle"]
    /\ loc' = [loc EXCEPT ![p].code = "verified"]
    /\ UNCHANGED <<oauthLog, nops>>
    /\ OAuthFrame

\* the map has no lock: when two goroutines are at an access of it and one
\* of the accesses writes, the accesses race, and the runtime may stop the
\* process with "fatal error: concurrent map read and map write" or
\* "concurrent map writes"; the map is lost with the process
MapAccess(p) == pc[p] \in {"store", "check", "delete"}
MapWrite(p) == pc[p] \in {"store", "delete"}

ConcurrentMapFatal ==
    /\ \E p, q \in Procs : p # q /\ MapWrite(p) /\ MapAccess(q)
    /\ pc' = [p \in Procs |-> "crashed"]
    /\ oauthStates' = {}
    /\ UNCHANGED <<loc, oauthLog, nops>>
    /\ OAuthFrame

NextOAuth ==
    \/ ConcurrentMapFatal
    \/ \E p \in Procs :
          \/ HandleGoogleLoginBegin(p) \/ HandleGoogleLoginStore(p)
          \/ HandleGoogleCallbackBegin(p) \/ HandleGoogleCallbackCheck(p)
          \/ HandleGoogleCallbackDelete(p)

SpecOAuth == InitOAuth /\ [][NextOAuth]_vars

\* C33: every state value is accepted by HandleGoogleCallback at most once,
\* also when two callbacks carrying it are handled concurrently; a state no
\* login issued is never accepted; a state whose acceptance has completed is
\* no longer in the map.
CE_C33_StateAcceptedAtMostOnce ==
    \A state \in CallbackStates :
        /\ oauthLog.accepted[state] <= 1
        /\ state \notin oauthLog.issued => oauthLog.accepted[state] = 0
        /\ (oauthLog.accepted[state] > 0 /\ \A p \in Procs : pc[p] = "idle")
               => state \notin oauthStates

\* two callbacks carrying the one issued state have both passed the lookup
\* and both gone on to the code exchange
Reach_C33_StateAcceptedTwice ==
    /\ oauthLog.issued = {"state-1"}
    /\ oauthLog.accepted["state-1"] = 2
    /\ \A p \in Procs : pc[p] = "idle" /\ loc[p] = [state |-> "state-1", code |-> "verified"]
    /\ oauthStates = {}

====
